---- MODULE Spec2Model ----
(***************************************************************************)
(* Tenant data synchronisation pipeline of shopify-insights:               *)
(*   backend/src/services/shopifyService.ts  (pull sync, orchestrator)     *)
(*   backend/src/routes/shopify.ts           (manual trigger, status)      *)
(*   backend/src/routes/webhooks.ts          (push reconciliation)         *)
(*                                                                         *)
(* The relational store (Prisma) is the variable db, one field per Prisma  *)
(* model.  A row id (cuid) is an opaque fresh value; the model takes the   *)
(* canonical fresh one <<tenant, shopifyId, n>>.  A payload is a JSON      *)
(* object: a record whose absent keys are absent from its DOMAIN.          *)
(* Of the columns that are mapped alike only one is kept: firstName stands *)
(* for email/lastName/phone/tags, totalPrice for the money columns of an   *)
(* order, title for the descriptive columns of a product.                  *)
(*                                                                         *)
(* Fault model: the gateway request of a sync run may fail, and a store    *)
(* write may fail at the first write of the k-th record of a batch; in a   *)
(* webhook the tenant lookup or the reconciling write may fail.  The       *)
(* SyncLog and lastSyncAt bookkeeping writes are taken to succeed.         *)
(*                                                                         *)
(* Not modelled: the callback of the daily cleanup of scheduler.ts, which *)
(* deletes SyncLog rows older than seven days (its registration is), and   *)
(* the clock of the sync pipeline; a timestamp column counts the writes    *)
(* made to it.  The analytics routes read dates in half days.              *)
(***************************************************************************)
EXTENDS Integers, Sequences, FiniteSets, Bags, TLC

\* ------------------------------------------------------------- bounds
\* syncTenantData invocations ever started
MaxRuns == 2
\* records in one fetched page
MaxBatch == 1
\* Event rows ever appended
MaxEvents == 2
\* records in one fetched page, where a specification follows a whole batch
MaxPage == 3
\* customers that never ordered, beside the customer whose profile varies
MaxCrowd == 3
\* consecutive days with orders, up to the day of the request
MaxBuckets == 8
\* calls of startScheduler in one process
MaxCalls == 3

VARIABLES db, runs, sweep, resp, last

vars == <<db, runs, sweep, resp, last>>

\* ------------------------------------------------------------- values
Null == "null"
NullId == <<>>
TenantIds == {"A", "B"}
UnknownTenant == "Z"
RequestTenants == TenantIds \cup {UnknownTenant}
AllTypes == <<"customers", "orders", "products">>

Has(p, f) == f \in DOMAIN p

\* a JSON/JS string value that is truthy: present, not null, not empty
Truthy(p, f) == Has(p, f) /\ p[f] # Null /\ p[f] # ""

\* a decimal string is the sequence of its digit characters
DigitVal == [c \in {"0", "1", "2", "3", "4", "5", "6", "7", "8", "9"} |->
               CASE c = "0" -> 0 [] c = "1" -> 1 [] c = "2" -> 2 [] c = "3" -> 3
                 [] c = "4" -> 4 [] c = "5" -> 5 [] c = "6" -> 6 [] c = "7" -> 7
                 [] c = "8" -> 8 [] c = "9" -> 9]

RECURSIVE parseDigits(_, _)
parseDigits(s, acc) ==
  IF s = <<>> THEN acc ELSE parseDigits(Tail(s), 10 * acc + DigitVal[Head(s)])

\* parseFloat(x || '0'): an absent or empty string reads as '0'
parseFloatOr0(p, f) ==
  IF Has(p, f) /\ p[f] # <<>> THEN parseDigits(p[f], 0) ELSE parseDigits(<<"0">>, 0)

\* x || 0 for a numeric field
numOr0(p, f) == IF Has(p, f) THEN p[f] ELSE 0

\* String(x.id): the decimal text of a number, "undefined" for an absent id
String(p, f) == IF Has(p, f) THEN ToString(p[f]) ELSE "undefined"

\* one optional key of a Prisma data object: undefined leaves the key out
Opt(col, p, f) == IF Has(p, f) THEN (col :> p[f]) ELSE <<>>

\* ------------------------------------------------------------- store
\* prisma.<model>.findUnique on the compound key tenantId_shopifyId
findUnique(table, t, s) == {r \in table : r.tenantId = t /\ r.shopifyId = s}

\* a fresh row id
newId(table, t, s) == <<t, s, Cardinality(findUnique(table, t, s))>>

upsertAlwaysCreates(table, t, s, update, create) ==
  table \cup {[id |-> newId(table, t, s)] @@ create}

upsertAnyTenant(table, t, s, update, create) ==
  LET found == {r \in table : r.shopifyId = s}
  IN  IF found # {}
      THEN {IF r \in found THEN update @@ r ELSE r : r \in table}
      ELSE table \cup {[id |-> newId(table, t, s)] @@ create}

\* prisma.<model>.upsert({where: {tenantId_shopifyId}, update, create})
upsert(table, t, s, update, create) ==
  LET found == findUnique(table, t, s)
  IN  IF found # {}
      THEN {IF r \in found THEN update @@ r ELSE r : r \in table}
      ELSE table \cup {[id |-> newId(table, t, s)] @@ create}

\* prisma.<model>.findMany({where: {tenantId}})
findMany(table, t) == {r \in table : r.tenantId = t}

\* the row an upsert returns
saved(table, t, s) == CHOOSE r \in table : r.tenantId = t /\ r.shopifyId = s

deleteManyKeepsAll(items, orderId) == items

\* prisma.orderLineItem.deleteMany({where: {orderId}})
deleteMany(items, orderId) ==
  [r \in {x \in DOMAIN items : x.orderId # orderId} |-> items[r]]

\* prisma.orderLineItem.create: OrderLineItem has a generated id and no unique
\* key over (orderId, shopifyId), so a second insert of an item adds a row
createItem(items, orderId, item) ==
  items (+) SetToBag({[orderId |-> orderId, shopifyId |-> String(item, "id")]})

RECURSIVE createItems(_, _, _)
\* the loop of prisma.orderLineItem.create over order.line_items
createItems(items, orderId, list) ==
  IF list = <<>> THEN items
  ELSE createItems(createItem(items, orderId, Head(list)), orderId, Tail(list))

\* ------------------------------------------------------------- pull sync
\* the body of the loop of syncCustomers: one customer of the page
syncCustomer(d, t, customer) ==
  LET update == Opt("firstName", customer, "first_name") @@
                [totalSpent |-> parseFloatOr0(customer, "total_spent"),
                 ordersCount |-> numOr0(customer, "orders_count")]
      create == [tenantId |-> t,
                 shopifyId |-> String(customer, "id"),
                 firstName |-> IF Has(customer, "first_name")
                               THEN customer.first_name ELSE Null,
                 totalSpent |-> parseFloatOr0(customer, "total_spent"),
                 ordersCount |-> numOr0(customer, "orders_count")]
  IN  [d EXCEPT !.customer = upsert(@, t, String(customer, "id"), update, create)]

\* customerData.first_name || customerData.default_address?.first_name:
\* <<v>> when one of them is truthy, <<>> when the chain ends undefined
embeddedName(c) ==
  IF Truthy(c, "first_name") THEN <<c.first_name>>
  ELSE IF Has(c, "default_address") /\ Truthy(c.default_address, "first_name")
       THEN <<c.default_address.first_name>>
       ELSE <<>>

\* order.customer?.id is truthy
hasCustomer(order) ==
  Has(order, "customer") /\ Has(order.customer, "id") /\ order.customer.id # 0

upsertedCustomerTotals(d, t, order) ==
  LET customerData == order.customer
      spent == [totalSpent |-> parseFloatOr0(order, "total_price"), ordersCount |-> 1]
  IN  IF hasCustomer(order)
      THEN [d EXCEPT !.customer =
              upsert(@, t, String(customerData, "id"), spent,
                     [tenantId |-> t,
                      shopifyId |-> String(customerData, "id"),
                      firstName |-> Null] @@ spent)]
      ELSE d

\* the customer upsert of syncOrders, from the data embedded in the order
upsertedCustomer(d, t, order) ==
  LET customerData == order.customer
      name == embeddedName(customerData)
  IN  IF hasCustomer(order)
      THEN [d EXCEPT !.customer =
              upsert(@, t, String(customerData, "id"),
                     IF name # <<>> THEN ("firstName" :> name[1]) ELSE <<>>,
                     [tenantId |-> t,
                      shopifyId |-> String(customerData, "id"),
                      firstName |-> IF name # <<>> THEN name[1] ELSE Null,
                      totalSpent |-> 0,
                      ordersCount |-> 0])]
      ELSE d

customerIdOfAnyTenant(d, t, order) ==
  IF hasCustomer(order)
  THEN (CHOOSE c \in d.customer : c.shopifyId = String(order.customer, "id")).id
  ELSE NullId

\* customerId = upsertedCustomer.id, or null without an embedded customer
customerIdOf(d, t, order) ==
  IF hasCustomer(order)
  THEN saved(d.customer, t, String(order.customer, "id")).id
  ELSE NullId

\* the order upsert of syncOrders
upsertedOrder(d, t, order, customerId) ==
  [d EXCEPT !.order =
     upsert(@, t, String(order, "id"),
            [totalPrice |-> parseFloatOr0(order, "total_price"),
             customerId |-> customerId],
            [tenantId |-> t,
             shopifyId |-> String(order, "id"),
             totalPrice |-> parseFloatOr0(order, "total_price"),
             customerId |-> customerId])]

\* the body of the loop of syncOrders: one order of the page
syncOrder(d, t, order) ==
  LET d1 == upsertedCustomer(d, t, order)
      customerId == customerIdOf(d1, t, order)
      d2 == upsertedOrder(d1, t, order, customerId)
      savedOrder == saved(d2.order, t, String(order, "id"))
  IN  IF Has(order, "line_items")
      THEN [d2 EXCEPT !.orderLineItem =
              createItems(deleteMany(@, savedOrder.id), savedOrder.id, order.line_items)]
      ELSE d2

\* product.variants?.[0] and the price read from it
firstVariantPrice(product) ==
  IF Has(product, "variants") /\ product.variants # <<>>
  THEN parseFloatOr0(product.variants[1], "price")
  ELSE 0

\* the body of the loop of syncProducts: one product of the page
syncProduct(d, t, product) ==
  LET update == Opt("title", product, "title") @@
                [price |-> firstVariantPrice(product)]
      create == [tenantId |-> t,
                 shopifyId |-> String(product, "id"),
                 title |-> IF Has(product, "title") THEN product.title ELSE Null,
                 price |-> firstVariantPrice(product)]
  IN  [d EXCEPT !.product = upsert(@, t, String(product, "id"), update, create)]

\* one record of a page of the given type
syncRecord(d, t, type, rec) ==
  CASE type = "customers" -> syncCustomer(d, t, rec)
    [] type = "orders" -> syncOrder(d, t, rec)
    [] type = "products" -> syncProduct(d, t, rec)

RECURSIVE syncPage(_, _, _, _)
\* syncCustomers / syncOrders / syncProducts over the records of the one page
syncPage(d, t, type, page) ==
  IF page = <<>> THEN d
  ELSE syncPage(syncRecord(d, t, type, Head(page)), t, type, Tail(page))

\* ------------------------------------------------------------- webhooks
handleCustomerWebhook(d, t, payload) ==
  LET update == Opt("firstName", payload, "first_name") @@
                [totalSpent |-> parseFloatOr0(payload, "total_spent"),
                 ordersCount |-> numOr0(payload, "orders_count")]
      create == [tenantId |-> t,
                 shopifyId |-> String(payload, "id"),
                 firstName |-> IF Has(payload, "first_name")
                               THEN payload.first_name ELSE Null,
                 totalSpent |-> parseFloatOr0(payload, "total_spent"),
                 ordersCount |-> numOr0(payload, "orders_count")]
  IN  [d EXCEPT !.customer = upsert(@, t, String(payload, "id"), update, create)]

handleOrderWebhook(d, t, payload) ==
  LET found == IF hasCustomer(payload)
               THEN findUnique(d.customer, t, String(payload.customer, "id"))
               ELSE {}
      customerId == IF found # {} THEN (CHOOSE c \in found : TRUE).id ELSE NullId
  IN  [d EXCEPT !.order =
         upsert(@, t, String(payload, "id"),
                [totalPrice |-> parseFloatOr0(payload, "total_price")],
                [tenantId |-> t,
                 shopifyId |-> String(payload, "id"),
                 totalPrice |-> parseFloatOr0(payload, "total_price"),
                 customerId |-> customerId])]

handleProductWebhook(d, t, payload) ==
  LET update == Opt("title", payload, "title") @@
                [price |-> firstVariantPrice(payload)]
      create == [tenantId |-> t,
                 shopifyId |-> String(payload, "id"),
                 title |-> IF Has(payload, "title") THEN payload.title ELSE Null,
                 price |-> firstVariantPrice(payload)]
  IN  [d EXCEPT !.product = upsert(@, t, String(payload, "id"), update, create)]

handleCartEventUpserts(d, t, eventType, payload) ==
  LET row == [tenantId |-> t,
              type |-> eventType,
              source |-> "webhook",
              customerId |-> IF Has(payload, "customer") /\ Has(payload.customer, "id")
                             THEN String(payload.customer, "id") ELSE Null,
              sessionId |-> IF Has(payload, "token") THEN payload.token ELSE Null]
  IN  IF \E i \in DOMAIN d.event : d.event[i] = row THEN d
      ELSE [d EXCEPT !.event = Append(@, row)]

handleCartEvent(d, t, eventType, payload) ==
  [d EXCEPT !.event =
     Append(@, [tenantId |-> t,
                type |-> eventType,
                source |-> "webhook",
                customerId |-> IF Has(payload, "customer") /\ Has(payload.customer, "id")
                               THEN String(payload.customer, "id") ELSE Null,
                sessionId |-> IF Has(payload, "token") THEN payload.token ELSE Null])]

CustomerTopics == {"customers/create", "customers/update"}
OrderTopics == {"orders/create", "orders/updated"}
ProductTopics == {"products/create", "products/update"}
CartTopics == {"carts/create", "carts/update", "checkouts/create", "checkouts/delete"}

dispatchLogsDelivery(d, t, topic, payload) ==
  LET d1 == CASE topic \in CustomerTopics -> handleCustomerWebhook(d, t, payload)
              [] topic \in OrderTopics -> handleOrderWebhook(d, t, payload)
              [] topic \in ProductTopics -> handleProductWebhook(d, t, payload)
              [] topic \in {"carts/create", "carts/update"} ->
                   handleCartEvent(d, t, "cart_updated", payload)
              [] topic = "checkouts/create" ->
                   handleCartEvent(d, t, "checkout_started", payload)
              [] topic = "checkouts/delete" ->
                   handleCartEvent(d, t, "cart_abandoned", payload)
              [] OTHER -> d
  IN  [d1 EXCEPT !.syncLog = Append(@, [id |-> Len(d.syncLog) + 1,
                                        tenantId |-> t,
                                        type |-> topic,
                                        status |-> "completed",
                                        itemCount |-> 1,
                                        error |-> Null,
                                        completedAt |-> 1])]

\* the switch on the topic header
dispatch(d, t, topic, payload) ==
  CASE topic \in CustomerTopics -> handleCustomerWebhook(d, t, payload)
    [] topic \in OrderTopics -> handleOrderWebhook(d, t, payload)
    [] topic \in ProductTopics -> handleProductWebhook(d, t, payload)
    [] topic \in {"carts/create", "carts/update"} ->
         handleCartEvent(d, t, "cart_updated", payload)
    [] topic = "checkouts/create" -> handleCartEvent(d, t, "checkout_started", payload)
    [] topic = "checkouts/delete" -> handleCartEvent(d, t, "cart_abandoned", payload)
    [] OTHER -> d

\* ------------------------------------------------------------- state
\* db     the store, one field per Prisma model; syncLog and event are kept in
\*        creation order, orderLineItem is a bag (its rows have no natural key).
\*        A timestamp column holds the number of times it was written.
\* runs   the syncTenantData invocations ever started, in start order; an
\*        invocation that has ended keeps only how it ended
\* sweep  the cron job running syncAllTenants
\* resp   the request answered last with the response sent, and
\* last   the record reconciled last: history, kept by the specifications that
\*        observe it (obs names which of the two an action records)
NoResp == [route |-> "none", status |-> 0]
NoLast == [path |-> "none"]

Init ==
  /\ db = [tenant |-> [t \in TenantIds |->
                         [accessToken |-> IF t = "A" THEN "shpat" ELSE Null,
                          isActive |-> TRUE,
                          lastSyncAt |-> 0]],
           customer |-> {},
           order |-> {},
           orderLineItem |-> EmptyBag,
           product |-> {},
           event |-> <<>>,
           syncLog |-> <<>>]
  /\ runs = <<>>
  /\ sweep = [pc |-> "idle", queue |-> <<>>, cur |-> 0]
  /\ resp = NoResp
  /\ last = NoLast

Finished(r) == runs[r].pc \in {"done", "rejected"}

\* the response as the specification records it
Sent(obs, r) == IF "resp" \in obs THEN r ELSE resp

tableOf(d, kind) ==
  CASE kind = "customers" -> d.customer
    [] kind = "orders" -> d.order
    [] kind = "products" -> d.product

\* the line items stored for the orders with natural key (t, s)
itemsOf(d, t, s) ==
  LET ids == {o.id : o \in findUnique(d.order, t, s)}
  IN  [r \in {x \in DOMAIN d.orderLineItem : x.orderId \in ids} |-> d.orderLineItem[r]]

\* history: the record just reconciled, whether it is the record reconciled
\* before it, whether reconciling it added a row, and the line items its
\* order had before
mark(prev, path, kind, t, p, before, after) ==
  [path |-> path, kind |-> kind, tenant |-> t, payload |-> p,
   again |-> /\ prev.path # "none"
             /\ prev.kind = kind
             /\ prev.tenant = t
             /\ prev.payload = p,
   added |-> Cardinality(tableOf(after, kind)) > Cardinality(tableOf(before, kind)),
   itemsBefore |-> IF kind = "orders" THEN itemsOf(before, t, String(p, "id"))
                   ELSE EmptyBag]

RECURSIVE markPage(_, _, _, _, _)
markPage(prev, d, t, type, page) ==
  IF page = <<>> THEN prev
  ELSE LET d1 == syncRecord(d, t, type, Head(page))
       IN  markPage(mark(prev, "pull", type, t, Head(page), d, d1), d1, t, type, Tail(page))

kindOf(topic) ==
  CASE topic \in CustomerTopics -> "customers"
    [] topic \in OrderTopics -> "orders"
    [] topic \in ProductTopics -> "products"
    [] OTHER -> "none"

\* ------------------------------------------------------------- POST /sync
\* type === 'all' ? ['customers', 'orders', 'products'] : [type]
syncTypes(type) == IF type = "all" THEN AllTypes ELSE <<type>>

acceptMessageAll(types) == [text |-> "Sync started for: ", types |-> AllTypes]

\* `Sync started for: ${syncTypes.join(', ')}`
acceptMessage(types) == [text |-> "Sync started for: ", types |-> types]

newRun(t, types, caller) ==
  [tenant |-> t, types |-> types, caller |-> caller,
   pc |-> "check", idx |-> 1, logs |-> <<>>]

routeGuardTenantOnly(d, t) ==
  IF t \notin DOMAIN d.tenant THEN "NOT_FOUND" ELSE "ok"

\* the two guards of the route: 404 without the tenant, 400 without a token
routeGuard(d, t) ==
  IF t \notin DOMAIN d.tenant THEN "NOT_FOUND"
  ELSE IF d.tenant[t].accessToken = Null THEN "SHOPIFY_NOT_CONNECTED"
  ELSE "ok"

SyncRoute(t, type, obs) ==
  LET g == routeGuard(db, t)
  IN  /\ g = "ok" => Len(runs) < MaxRuns
      /\ IF g = "NOT_FOUND"
         THEN /\ resp' = Sent(obs, [route |-> "sync", tenant |-> t, status |-> 404, code |-> g])
              /\ UNCHANGED runs
         ELSE IF g = "SHOPIFY_NOT_CONNECTED"
         THEN /\ resp' = Sent(obs, [route |-> "sync", tenant |-> t, status |-> 400, code |-> g])
              /\ UNCHANGED runs
         ELSE /\ runs' = Append(runs, newRun(t, syncTypes(type), "route"))
              /\ resp' = Sent(obs, [route |-> "sync", tenant |-> t, status |-> 200,
                                    message |-> acceptMessage(syncTypes(type))])
      /\ UNCHANGED <<db, sweep, last>>

\* ------------------------------------------------------------- POST /connect
Connect(t, accessToken, obs) ==
  /\ IF accessToken = ""
     THEN /\ resp' = Sent(obs, [route |-> "connect", tenant |-> t, status |-> 400,
                                code |-> "VALIDATION_ERROR"])
          /\ UNCHANGED db
     ELSE IF t \notin DOMAIN db.tenant
     THEN /\ resp' = Sent(obs, [route |-> "connect", tenant |-> t, status |-> 500,
                                code |-> "INTERNAL_ERROR"])
          /\ UNCHANGED db
     ELSE /\ db' = [db EXCEPT !.tenant[t].accessToken = accessToken]
          /\ resp' = Sent(obs, [route |-> "connect", tenant |-> t, status |-> 200])
  /\ UNCHANGED <<runs, sweep, last>>

\* ------------------------------------------------------------- GET /sync-status
\* the rows of the tenant, newest first, at most 10
recentLogs(d, t) ==
  LET mine == SelectSeq(d.syncLog, LAMBDA l : l.tenantId = t)
      n == Len(mine)
      k == IF n < 10 THEN n ELSE 10
  IN  [i \in 1..k |-> mine[n + 1 - i]]

syncStatus(d, t) ==
  [lastSyncAt |-> IF t \in DOMAIN d.tenant THEN d.tenant[t].lastSyncAt ELSE 0,
   recentLogs |-> recentLogs(d, t)]

\* ------------------------------------------------------------- syncTenantData
\* findUnique and the credential check at the head of syncTenantData
SyncCheck(r) ==
  /\ r \in DOMAIN runs
  /\ runs[r].pc = "check"
  /\ LET t == runs[r].tenant
     IN  runs' = [runs EXCEPT ![r] =
                    IF t \notin DOMAIN db.tenant \/ db.tenant[t].accessToken = Null
                    THEN [pc |-> "rejected"]
                    ELSE [@ EXCEPT !.pc = IF runs[r].types = <<>> THEN "stamp" ELSE "create"]]
  /\ UNCHANGED <<db, sweep, resp, last>>

newLog(id, t, type) ==
  [id |-> id, tenantId |-> t, type |-> type, status |-> "running",
   itemCount |-> 0, error |-> Null, completedAt |-> 0]

CreateLogAll(r) ==
  /\ r \in DOMAIN runs
  /\ runs[r].pc = "create"
  /\ LET run == runs[r]
         rest == SubSeq(run.types, run.idx, Len(run.types))
         rows == [i \in DOMAIN rest |-> newLog(Len(db.syncLog) + i, run.tenant, rest[i])]
     IN  /\ db' = [db EXCEPT !.syncLog = @ \o rows]
         /\ runs' = [runs EXCEPT ![r].pc = "exec",
                                 ![r].logs = @ \o [i \in DOMAIN rest |-> rows[i].id]]
  /\ UNCHANGED <<sweep, resp, last>>

\* prisma.syncLog.create({data: {tenantId, type, status: 'running'}})
CreateLog(r) ==
  /\ r \in DOMAIN runs
  /\ runs[r].pc = "create"
  /\ LET id == Len(db.syncLog) + 1
     IN  /\ db' = [db EXCEPT !.syncLog =
                     Append(@, newLog(id, runs[r].tenant, runs[r].types[runs[r].idx]))]
         /\ runs' = [runs EXCEPT ![r].pc = "exec", ![r].logs = Append(@, id)]
  /\ UNCHANGED <<sweep, resp, last>>

afterTypeStampsEarly(run, failed) ==
  [run EXCEPT !.idx = @ + 1, !.pc = "stamp"]

afterTypeStopsOnFailure(run, failed) ==
  IF failed THEN [pc |-> "done"]
  ELSE [run EXCEPT !.idx = @ + 1,
                   !.pc = IF run.idx + 1 > Len(run.types) THEN "stamp" ELSE "create"]

\* the end of one turn of the loop over types: the next type, or the stamp
afterType(run, failed) ==
  [run EXCEPT !.idx = @ + 1,
              !.pc = IF run.idx + 1 > Len(run.types) THEN "stamp" ELSE "create"]

closeLogKeepsRunning(row, failed, message, count) ==
  IF failed THEN [row EXCEPT !.error = message]
  ELSE [row EXCEPT !.status = "completed", !.itemCount = count, !.completedAt = @ + 1]

\* the syncLog.update of the try block (completed) or of the catch block (failed)
closeLog(row, failed, message, count) ==
  IF failed
  THEN [row EXCEPT !.status = "failed", !.error = message, !.completedAt = @ + 1]
  ELSE [row EXCEPT !.status = "completed", !.itemCount = count, !.completedAt = @ + 1]

\* history: the page fetched last, with the record at which the store failed
fetched(prev, t, type, page, gatewayFails, failAt) ==
  [path |-> "batch", kind |-> type, tenant |-> t, page |-> page,
   gatewayFails |-> gatewayFails, failAt |-> failAt,
   n |-> IF "n" \in DOMAIN prev THEN 1 - prev.n ELSE 1]

reconciledIgnoresFailure(page, gatewayFails, failAt) ==
  IF gatewayFails THEN 0 ELSE Len(page)

\* the number of records of the page the loop reconciles: all of them, or
\* those before the record whose write throws
reconciled(page, gatewayFails, failAt) ==
  IF gatewayFails THEN 0
  ELSE IF failAt = 0 THEN Len(page) ELSE failAt - 1

\* the try/catch of one type: fetch the page, reconcile it, close the SyncLog.
\* gatewayFails: shopifyRequest throws; failAt = k > 0: the store throws at
\* record k, after records 1..k-1 were written
ExecType(r, gatewayFails, page, failAt, obs) ==
  /\ r \in DOMAIN runs
  /\ runs[r].pc = "exec"
  /\ LET run == runs[r]
         t == run.tenant
         type == run.types[run.idx]
         id == run.logs[Len(run.logs)]
         n == reconciled(page, gatewayFails, failAt)
         failed == gatewayFails \/ failAt # 0
         d1 == syncPage(db, t, type, SubSeq(page, 1, n))
     IN  /\ db' = [d1 EXCEPT !.syncLog[id] =
                     closeLog(@, failed,
                              IF gatewayFails THEN "Shopify API error" ELSE "store error",
                              Len(page))]
         /\ runs' = [runs EXCEPT ![r] = afterType(run, failed)]
         /\ last' = IF "last" \in obs
                    THEN markPage(last, db, t, type, SubSeq(page, 1, n))
                    ELSE IF "batch" \in obs
                    THEN fetched(last, t, type, page, gatewayFails, failAt)
                    ELSE last
  /\ UNCHANGED <<sweep, resp>>

\* syncOrders one store operation at a time, each await a point where another
\* run may act. FetchOrders: shopifyRequest(config, 'orders') returns the page
FetchOrders(r, page) ==
  /\ r \in DOMAIN runs
  /\ runs[r].pc = "exec"
  /\ runs[r].types[runs[r].idx] = "orders"
  /\ last.path = "batch" => page = last.page
  /\ runs' = [runs EXCEPT ![r] =
                [pc |-> "orders", page |-> page, pos |-> 1,
                 op |-> IF page = <<>> THEN "close" ELSE "customer",
                 k |-> 1, customerId |-> NullId, orderId |-> NullId] @@ @]
  /\ last' = fetched(last, runs[r].tenant, "orders", page, FALSE, 0)
  /\ UNCHANGED <<db, sweep, resp>>

\* count++ and the next turn of the loop over orders
nextOrder(run) ==
  [run EXCEPT !.pos = @ + 1, !.k = 1,
              !.op = IF run.pos + 1 > Len(run.page) THEN "close" ELSE "customer"]

\* the next await of the loop body: customer upsert, order upsert, deleteMany,
\* one orderLineItem.create
OrderStep(r) ==
  /\ r \in DOMAIN runs
  /\ runs[r].pc = "orders"
  /\ runs[r].op \in {"customer", "order", "delete", "item"}
  /\ LET run == runs[r]
         t == run.tenant
         order == run.page[run.pos]
     IN  CASE run.op = "customer" ->
                /\ db' = upsertedCustomer(db, t, order)
                /\ runs' = [runs EXCEPT ![r].customerId = customerIdOf(db', t, order),
                                        ![r].op = "order"]
           [] run.op = "order" ->
                /\ db' = upsertedOrder(db, t, order, run.customerId)
                /\ runs' = [runs EXCEPT ![r] =
                               IF Has(order, "line_items")
                               THEN [run EXCEPT
                                       !.orderId = saved(db'.order, t, String(order, "id")).id,
                                       !.op = "delete"]
                               ELSE nextOrder(run)]
           [] run.op = "delete" ->
                /\ db' = [db EXCEPT !.orderLineItem = deleteMany(@, run.orderId)]
                /\ runs' = [runs EXCEPT ![r] =
                               IF order.line_items = <<>> THEN nextOrder(run)
                               ELSE [run EXCEPT !.op = "item", !.k = 1]]
           [] run.op = "item" ->
                /\ db' = [db EXCEPT !.orderLineItem =
                                      createItem(@, run.orderId, order.line_items[run.k])]
                /\ runs' = [runs EXCEPT ![r] =
                               IF run.k + 1 > Len(order.line_items) THEN nextOrder(run)
                               ELSE [run EXCEPT !.k = @ + 1]]
  /\ UNCHANGED <<sweep, resp, last>>

\* return count, and the syncLog.update of the try block
CloseOrders(r) ==
  /\ r \in DOMAIN runs
  /\ runs[r].pc = "orders"
  /\ runs[r].op = "close"
  /\ LET run == runs[r]
         id == run.logs[Len(run.logs)]
     IN  /\ db' = [db EXCEPT !.syncLog[id] = closeLog(@, FALSE, Null, Len(run.page))]
         /\ runs' = [runs EXCEPT ![r] = afterType(run, FALSE)]
  /\ UNCHANGED <<sweep, resp, last>>

\* prisma.tenant.update({data: {lastSyncAt: new Date()}}) after the loop
Stamp(r) ==
  /\ r \in DOMAIN runs
  /\ runs[r].pc = "stamp"
  /\ db' = [db EXCEPT !.tenant[runs[r].tenant].lastSyncAt = @ + 1]
  /\ runs' = [runs EXCEPT ![r] = [pc |-> "done"]]
  /\ UNCHANGED <<sweep, resp, last>>

\* ------------------------------------------------------------- syncAllTenants
eligibleAnyTenant(d) == {t \in DOMAIN d.tenant : d.tenant[t].accessToken # Null}

\* findMany({where: {isActive: true, accessToken: {not: null}}})
eligible(d) ==
  {t \in DOMAIN d.tenant : d.tenant[t].isActive /\ d.tenant[t].accessToken # Null}

Orderings(S) ==
  {q \in [1..Cardinality(S) -> S] : \A x \in S : \E i \in DOMAIN q : q[i] = x}

\* the cron callback starts a sweep over the tenants found
SweepStart(queue) ==
  /\ sweep.pc = "idle"
  /\ queue \in Orderings(eligible(db))
  /\ Len(runs) + Len(queue) <= MaxRuns
  /\ sweep' = [sweep EXCEPT !.pc = "loop", !.queue = queue, !.cur = 0]
  /\ UNCHANGED <<db, runs, resp, last>>

\* one turn of the loop of syncAllTenants: the awaited run has ended (its
\* rejection is caught and logged), the next tenant's run starts
SweepLoop ==
  /\ sweep.pc = "loop"
  /\ sweep.cur # 0 => Finished(sweep.cur)
  /\ IF sweep.queue = <<>>
     THEN /\ sweep' = [sweep EXCEPT !.pc = "idle", !.queue = <<>>, !.cur = 0]
          /\ UNCHANGED runs
     ELSE /\ runs' = Append(runs, newRun(Head(sweep.queue), AllTypes, "sweep"))
          /\ sweep' = [sweep EXCEPT !.queue = Tail(@), !.cur = Len(runs) + 1]
  /\ UNCHANGED <<db, resp, last>>

\* ------------------------------------------------------------- scheduler.ts
\* Where a specification follows startScheduler, sweep has three more fields:
\* schedulerStarted, the flag of the module; timers, the cron expressions
\* registered with cron.schedule, in order; calls, the calls of startScheduler
\* made so far.
SweepCron == "*/15 * * * *"
CleanupCron == "0 0 * * *"

StartSchedulerUnguarded ==
  /\ sweep.calls < MaxCalls
  /\ sweep' = [sweep EXCEPT !.calls = @ + 1,
                            !.timers = @ \o <<SweepCron, CleanupCron>>,
                            !.schedulerStarted = TRUE]
  /\ UNCHANGED <<db, runs, resp, last>>

\* startScheduler(): returns at once when the flag is set, else registers the
\* two timers and sets the flag
StartScheduler ==
  /\ sweep.calls < MaxCalls
  /\ sweep' = IF sweep.schedulerStarted
              THEN [sweep EXCEPT !.calls = @ + 1]
              ELSE [sweep EXCEPT !.calls = @ + 1,
                                 !.timers = @ \o <<SweepCron, CleanupCron>>,
                                 !.schedulerStarted = TRUE]
  /\ UNCHANGED <<db, runs, resp, last>>

\* the i-th registered timer fires: the callback of the 15-minute timer
\* awaits syncAllTenants
Tick(i) ==
  /\ i \in DOMAIN sweep.timers
  /\ sweep.timers[i] = SweepCron
  /\ \E queue \in Orderings(eligible(db)) : SweepStart(queue)

\* ------------------------------------------------------------- POST /shopify/:tenantId
Handled(topic) == topic \in CustomerTopics \cup OrderTopics \cup ProductTopics \cup CartTopics

\* the request headers, and a bit that tells one request from the next, where
\* the specification observes them
Request(obs, topic, signature) ==
  IF "req" \in obs
  THEN [topic |-> topic, signature |-> signature,
        n |-> IF "n" \in DOMAIN resp THEN 1 - resp.n ELSE 1]
  ELSE <<>>

catchStatus500 == 200 + 300

\* res.status(200) in the catch block
catchStatus == 200

\* body: [parses |-> FALSE] or [parses |-> TRUE, json |-> payload];
\* fault: "none", "findTenant" (the tenant lookup throws), "write" (the store
\* write of the handler throws); signature: the x-shopify-hmac-sha256 header
Webhook(t, topic, signature, body, fault, obs) ==
  /\ (topic \in CartTopics /\ fault = "none" /\ body.parses /\ t \in DOMAIN db.tenant)
       => Len(db.event) < MaxEvents
  /\ IF fault = "findTenant"
     THEN /\ resp' = Sent(obs, [route |-> "webhook", tenant |-> t, status |-> catchStatus,
                                error |-> "Processing error"]
                                   @@ Request(obs, topic, signature))
          /\ UNCHANGED <<db, last>>
     ELSE IF t \notin DOMAIN db.tenant
     THEN /\ resp' = Sent(obs, [route |-> "webhook", tenant |-> t, status |-> 404,
                                error |-> "Tenant not found"]
                                   @@ Request(obs, topic, signature))
          /\ UNCHANGED <<db, last>>
     ELSE IF ~body.parses \/ (fault = "write" /\ Handled(topic))
     THEN /\ resp' = Sent(obs, [route |-> "webhook", tenant |-> t, status |-> catchStatus,
                                error |-> "Processing error"]
                                   @@ Request(obs, topic, signature))
          /\ UNCHANGED <<db, last>>
     ELSE /\ db' = dispatch(db, t, topic, body.json)
          /\ resp' = Sent(obs, [route |-> "webhook", tenant |-> t, status |-> 200,
                                received |-> TRUE]
                                   @@ Request(obs, topic, signature))
          /\ last' = IF "last" \in obs /\ kindOf(topic) # "none"
                     THEN mark(last, "webhook", kindOf(topic), t, body.json, db, db')
                     ELSE last
  /\ UNCHANGED <<runs, sweep>>

\* ------------------------------------------------------------- inputs
cAnn == [id |-> 1, first_name |-> "Ann", total_spent |-> <<"5", "0">>, orders_count |-> 2]
cBob == [id |-> 1, first_name |-> "Bob"]
itemA == [id |-> 11]
itemB == [id |-> 12]
itemC == [id |-> 13]
oAB == [id |-> 7, total_price |-> <<"1", "0">>,
        customer |-> [id |-> 1, first_name |-> "Ann"],
        line_items |-> <<itemA, itemB>>]
oC == [id |-> 7, total_price |-> <<"2", "0">>, line_items |-> <<itemC>>]
pMug == [id |-> 3, title |-> "Mug", variants |-> <<[price |-> <<"5">>]>>]
pCup == [id |-> 3, title |-> "Cup"]
cart == [token |-> "s1", customer |-> [id |-> 1]]

Pages(S) == UNION {[1..n -> S] : n \in 0..MaxBatch}

cCy == [id |-> 2, first_name |-> "Cy"]
cDee == [id |-> 3, first_name |-> "Dee"]
cNoId == [first_name |-> "Nil"]

\* the shop as the batch specification sees it: customers of different keys,
\* and one without its id
BatchShop(t, type) == IF type = "customers" THEN {cAnn, cCy, cDee, cNoId} ELSE {}

\* the pages a shop can return
PagesOf(shop, S) ==
  IF shop = "batch" THEN UNION {[1..n -> S] : n \in 0..MaxPage} ELSE Pages(S)

Json(p) == [parses |-> TRUE, json |-> p]

\* the shop of each tenant as the orchestration specifications see it
OrchShop(t, type) == IF type = "customers" THEN {cAnn} ELSE {}

OrchDeliveries(t) ==
  {<<"customers/update", Json(cAnn)>>,
   <<"customers/update", [parses |-> FALSE]>>,
   <<"app/uninstalled", Json(cAnn)>>}

\* the deliveries the route specification sees
ApiDeliveries(t) == OrchDeliveries(t) \cup {<<"carts/create", Json(cart)>>}

\* the deliveries the webhook specification sees: every handler, two cart
\* topics, an unhandled topic and a body that does not parse
HookDeliveries(t) ==
  {<<"customers/update", Json(cAnn)>>,
   <<"orders/create", Json(oAB)>>,
   <<"products/update", Json(pMug)>>,
   <<"carts/create", Json(cart)>>,
   <<"checkouts/delete", Json(cart)>>,
   <<"app/uninstalled", Json(cAnn)>>,
   <<"carts/update", [parses |-> FALSE]>>}

\* the delivery that meets a store fault
FaultyDeliveries(t) == {<<"customers/update", Json(cAnn)>>}

\* the shop of each tenant as the reconciliation specification sees it
StoreShop(t, type) ==
  CASE type = "customers" -> {cAnn, cBob}
    [] type = "orders" -> IF t = "A" THEN {oAB, oC} ELSE {}
    [] type = "products" -> IF t = "A" THEN {pMug, pCup} ELSE {}

StoreDeliveries(t) ==
  {<<"customers/update", Json(c)>> : c \in StoreShop(t, "customers")}
  \cup {<<"orders/updated", Json(o)>> : o \in StoreShop(t, "orders")}
  \cup {<<"products/update", Json(q)>> : q \in StoreShop(t, "products")}

\* two shops that hold the same external ids: every tenant has the customers
\* and the orders that tenant A has above
RefShop(t, type) == IF type = "products" THEN {} ELSE StoreShop("A", type)

RefDeliveries(t) ==
  {<<"customers/update", Json(c)>> : c \in RefShop(t, "customers")}
  \cup {<<"orders/create", Json(o)>> : o \in RefShop(t, "orders")}

\* the shop and the deliveries a specification draws from
Shop(shop, t, type) ==
  IF shop = "store" THEN StoreShop(t, type)
  ELSE IF shop = "ref" THEN RefShop(t, type)
  ELSE IF shop = "batch" THEN BatchShop(t, type)
  ELSE OrchShop(t, type)

Deliveries(deliveries, t) ==
  CASE deliveries = "store" -> StoreDeliveries(t)
    [] deliveries = "api" -> ApiDeliveries(t)
    [] deliveries = "faulty" -> FaultyDeliveries(t)
    [] deliveries = "hook" -> HookDeliveries(t)
    [] deliveries = "ref" -> RefDeliveries(t)
    [] OTHER -> OrchDeliveries(t)

\* every outcome of one type of a run, over the pages the shop can return
RunType(r, shop, faulty, obs) ==
  /\ r \in DOMAIN runs
  /\ runs[r].pc = "exec"
  /\ \/ faulty /\ ExecType(r, TRUE, <<>>, 0, obs)
     \/ \E page \in PagesOf(shop, Shop(shop, runs[r].tenant, runs[r].types[runs[r].idx])) :
          \E failAt \in IF faulty THEN 0..Len(page) ELSE {0} :
            ExecType(r, FALSE, page, failAt, obs)

\* the try/catch of one type when the store also throws at the
\* syncLog.update of the catch block (entered by a failure of the gateway, of
\* the write of record failAt, or of the syncLog.update of the try block):
\* the error leaves syncTenantData and the row is left as it was created
ExecTypeUnlogged(r, gatewayFails, page, failAt) ==
  /\ r \in DOMAIN runs
  /\ runs[r].pc = "exec"
  /\ LET run == runs[r]
         n == reconciled(page, gatewayFails, failAt)
     IN  /\ db' = syncPage(db, run.tenant, run.types[run.idx], SubSeq(page, 1, n))
         /\ runs' = [runs EXCEPT ![r] = [pc |-> "rejected"]]
  /\ UNCHANGED <<sweep, resp, last>>

\* every such outcome of one type of a run
RunTypeUnlogged(r, shop) ==
  /\ r \in DOMAIN runs
  /\ runs[r].pc = "exec"
  /\ \/ ExecTypeUnlogged(r, TRUE, <<>>, 0)
     \/ \E page \in PagesOf(shop, Shop(shop, runs[r].tenant, runs[r].types[runs[r].idx])) :
          \E failAt \in 0..Len(page) : ExecTypeUnlogged(r, FALSE, page, failAt)

\* the x-shopify-hmac-sha256 header of a delivery: the digest of the body
\* under the shop's secret, or anything else
Signatures == {"valid", "invalid"}

Deliver(t, deliveries, faults, signatures, obs) ==
  \E dl \in Deliveries(deliveries, t), fault \in faults, signature \in signatures :
    Webhook(t, dl[1], signature, dl[2], fault, obs)

\* syncTenantData(tenantId) called directly, as the module exports it
Invoke(t) ==
  /\ Len(runs) < MaxRuns
  /\ runs' = Append(runs, newRun(t, AllTypes, "direct"))
  /\ UNCHANGED <<db, sweep, resp, last>>

\* ------------------------------------------------------------- GET /rfm-segments
\* Time counts half days, so that a difference of dates need not be a whole
\* number of days; money counts whole currency units.  Where an insights
\* route is followed, an Order row carries its orderDate.
\* 1000 * 60 * 60 * 24 milliseconds
Day == 2

\* customer.orders: orderBy orderDate desc, take 1
lastOrderDate(d, customer) ==
  LET dates == {o.orderDate : o \in {x \in d.order : x.customerId = customer.id}}
  IN  IF dates = {} THEN <<>>
      ELSE <<CHOOSE x \in dates : \A y \in dates : y <= x>>

\* Math.floor((now - lastOrderDate) / day), 999 without an order
daysSinceLastOrder(d, customer, now) ==
  LET lastOrder == lastOrderDate(d, customer)
  IN  IF lastOrder # <<>> THEN (now - lastOrder[1]) \div Day ELSE 999

recencyScoreStrict(days) ==
  IF days < 7 THEN 5 ELSE IF days < 30 THEN 4 ELSE IF days < 90 THEN 3
  ELSE IF days < 180 THEN 2 ELSE 1

recencyScore(days) ==
  IF days <= 7 THEN 5 ELSE IF days <= 30 THEN 4 ELSE IF days <= 90 THEN 3
  ELSE IF days <= 180 THEN 2 ELSE 1

frequencyScore(frequency) ==
  IF frequency >= 10 THEN 5 ELSE IF frequency >= 5 THEN 4 ELSE IF frequency >= 3 THEN 3
  ELSE IF frequency >= 2 THEN 2 ELSE 1

monetaryScore(monetary) ==
  IF monetary >= 1000 THEN 5 ELSE IF monetary >= 500 THEN 4 ELSE IF monetary >= 200 THEN 3
  ELSE IF monetary >= 50 THEN 2 ELSE 1

\* the if / else-if chain over the three scores
segment(R, F, M) ==
  IF R >= 4 /\ F >= 4 /\ M >= 4 THEN "Champions"
  ELSE IF F >= 4 /\ M >= 3 THEN "Loyal Customers"
  ELSE IF R >= 4 /\ F >= 2 THEN "Potential Loyalists"
  ELSE IF R >= 4 /\ F = 1 THEN "Recent Customers"
  ELSE IF R >= 3 /\ M >= 2 THEN "Promising"
  ELSE IF R <= 2 /\ F >= 3 THEN "Need Attention"
  ELSE IF R <= 2 /\ F >= 2 THEN "At Risk"
  ELSE "Hibernating"

\* the keys of the segments object, in insertion order
SegmentNames == <<"Champions", "Loyal Customers", "Potential Loyalists",
                  "Recent Customers", "Promising", "Need Attention", "At Risk",
                  "Hibernating">>

\* the segments object before the loop
NoSegments ==
  [name \in {SegmentNames[i] : i \in DOMAIN SegmentNames} |->
     [count |-> 0, totalValue |-> 0, customers |-> <<>>]]

\* the object pushed to segments[segment].customers
topCustomer(d, customer, now) ==
  LET days == daysSinceLastOrder(d, customer, now)
  IN  [name |-> IF customer.firstName # Null /\ customer.firstName # ""
                THEN customer.firstName ELSE "Unknown",
       totalSpent |-> customer.totalSpent,
       ordersCount |-> customer.ordersCount,
       daysSinceLastOrder |-> days,
       rfmScore |-> recencyScore(days) + frequencyScore(customer.ordersCount)
                      + monetaryScore(customer.totalSpent)]

tallyKeepsAll(segments, d, customer, now) ==
  LET days == daysSinceLastOrder(d, customer, now)
      name == segment(recencyScore(days), frequencyScore(customer.ordersCount),
                      monetaryScore(customer.totalSpent))
  IN  [segments EXCEPT ![name] =
         [count |-> @.count + 1,
          totalValue |-> @.totalValue + customer.totalSpent,
          customers |-> Append(@.customers, topCustomer(d, customer, now))]]

\* one turn of the loop over customers
tally(segments, d, customer, now) ==
  LET days == daysSinceLastOrder(d, customer, now)
      name == segment(recencyScore(days), frequencyScore(customer.ordersCount),
                      monetaryScore(customer.totalSpent))
  IN  [segments EXCEPT ![name] =
         [count |-> @.count + 1,
          totalValue |-> @.totalValue + customer.totalSpent,
          customers |-> IF Len(@.customers) < 3
                        THEN Append(@.customers, topCustomer(d, customer, now))
                        ELSE @.customers]]

RECURSIVE tallyAll(_, _, _, _)
tallyAll(segments, d, customers, now) ==
  IF customers = <<>> THEN segments
  ELSE tallyAll(tally(segments, d, Head(customers), now), d, Tail(customers), now)

\* Math.round(x * 100) / 100 of a quotient of non-negative money, in hundredths
roundedQuotient(a, b) == (200 * a + b) \div (2 * b)

\* Object.entries(segments).map(...).filter(s => s.count > 0)
segmentData(segments) ==
  LET row(name) == [segment |-> name,
                    count |-> segments[name].count,
                    totalValue |-> segments[name].totalValue,
                    avgValue |-> IF segments[name].count > 0
                                 THEN roundedQuotient(segments[name].totalValue,
                                                      segments[name].count)
                                 ELSE 0,
                    topCustomers |-> segments[name].customers]
      all == [i \in DOMAIN SegmentNames |-> row(SegmentNames[i])]
  IN  SelectSeq(all, LAMBDA r : r.count > 0)

\* the handler: customers is the result of customer.findMany({where: {tenantId}}),
\* the rows of the tenant in the order the store returns them
RfmSegments(t, customers, now) ==
  /\ resp' = [route |-> "rfm-segments", tenant |-> t, status |-> 200,
              segments |-> segmentData(tallyAll(NoSegments, db, customers, now)),
              totalCustomers |-> Len(customers)]
  /\ last' = [path |-> "rfm-segments", customers |-> customers, now |-> now]
  /\ UNCHANGED <<db, runs, sweep>>

\* ------------------------------------------------------------- GET /revenue-forecast
\* A JS number is a fraction in lowest terms, [n |-> numerator, d |-> denominator]
\* with d > 0, or one of the values NaN, Infinity, -Infinity, written with
\* d = 0, which JSON.stringify writes as null.
NaN == [n |-> 0, d |-> 0]
Infinity == [n |-> 1, d |-> 0]
MinusInfinity == [n |-> 0 - 1, d |-> 0]

\* Number.isFinite
finite(x) == x.d # 0

abs(i) == IF i < 0 THEN 0 - i ELSE i

RECURSIVE gcd(_, _)
gcd(a, b) == IF b = 0 THEN a ELSE gcd(b, a % b)

frac(n, d) == LET g == gcd(abs(n), d) IN [n |-> n \div g, d |-> d \div g]

num(i) == [n |-> i, d |-> 1]

\* a + b, a - b, a * b of finite numbers
plus(a, b) ==
  LET l == (a.d \div gcd(a.d, b.d)) * b.d
  IN  frac(a.n * (l \div a.d) + b.n * (l \div b.d), l)

minus(a, b) == plus(a, [n |-> 0 - b.n, d |-> b.d])

times(a, b) ==
  LET g1 == gcd(abs(a.n), b.d)
      g2 == gcd(abs(b.n), a.d)
  IN  frac((a.n \div g1) * (b.n \div g2), (a.d \div g2) * (b.d \div g1))

\* a / b of finite numbers: 0 / 0 is NaN, x / 0 is an infinity
over(a, b) ==
  IF b.n = 0
  THEN IF a.n = 0 THEN NaN ELSE IF a.n > 0 THEN Infinity ELSE MinusInfinity
  ELSE IF b.n > 0 THEN times(a, [n |-> b.d, d |-> b.n])
  ELSE times(a, [n |-> 0 - b.d, d |-> 0 - b.n])

\* a < b of finite numbers
below(a, b) == minus(a, b).n < 0

\* Math.round(x * 100) / 100; of NaN or an infinity it is that value itself
roundedHundredths(x) ==
  IF ~finite(x) THEN x
  ELSE LET y == plus(times(num(100), x), frac(1, 2)) IN frac(y.n \div y.d, 100)

\* the rows of the raw query: the orders of the tenant since startDate, grouped
\* by DATE(orderDate), ordered by date
RECURSIVE sumPrice(_)
sumPrice(orders) ==
  IF orders = {} THEN 0
  ELSE LET o == CHOOSE x \in orders : TRUE IN o.totalPrice + sumPrice(orders \ {o})

RECURSIVE ascending(_)
ascending(S) ==
  IF S = {} THEN <<>>
  ELSE LET x == CHOOSE y \in S : \A z \in S : y <= z IN <<x>> \o ascending(S \ {x})

dailyRevenue(d, t, startDate) ==
  LET recent == {o \in d.order : o.tenantId = t /\ o.orderDate >= startDate}
      dates == ascending({o.orderDate \div Day : o \in recent})
      on(date) == {o \in recent : o.orderDate \div Day = date}
  IN  [i \in DOMAIN dates |->
         [date |-> dates[i], revenue |-> sumPrice(on(dates[i])),
          order_count |-> Cardinality(on(dates[i]))]] \o <<>>

\* dailyRevenue.map(...): Number(d.revenue || 0), Number(d.order_count)
historicalData(rows) ==
  [i \in DOMAIN rows |->
     [date |-> rows[i].date, revenue |-> num(rows[i].revenue),
      orders |-> rows[i].order_count]] \o <<>>

\* the sum of a sequence of numbers, taken by halves
RECURSIVE sumOf(_)
sumOf(numbers) ==
  LET n == Len(numbers)
  IN  IF n = 0 THEN num(0)
      ELSE IF n = 1 THEN numbers[1]
      ELSE plus(sumOf(SubSeq(numbers, 1, n \div 2)),
                sumOf(SubSeq(numbers, n \div 2 + 1, n)))

\* reduce((sum, d) => sum + d.revenue, 0) over a slice of the series
sumRevenue(data) == sumOf([i \in DOMAIN data |-> data[i].revenue] \o <<>>)

xMean(n) == frac(n - 1, 2)
yMean(data) == over(sumRevenue(data), num(Len(data)))

\* the sums of the forEach; the index of the code is 0-based
numerator(data, mean) ==
  sumOf([i \in DOMAIN data |->
           times(minus(num(i - 1), xMean(Len(data))),
                 minus(data[i].revenue, mean))] \o <<>>)

denominator(data) ==
  sumOf([i \in DOMAIN data |->
           times(minus(num(i - 1), xMean(Len(data))),
                 minus(num(i - 1), xMean(Len(data))))] \o <<>>)

\* denominator !== 0 ? numerator / denominator : 0
slope(above, bottom) == IF bottom.n # 0 THEN over(above, bottom) ELSE num(0)

\* yMean - slope * xMean
intercept(mean, b, n) == minus(mean, times(b, xMean(n)))

\* the mean of the squared residuals d.revenue - (intercept + slope * i)
variance(data, a, b) ==
  LET residuals == [i \in DOMAIN data |->
                      minus(data[i].revenue, plus(a, times(b, num(i - 1))))] \o <<>>
  IN  over(sumOf([i \in DOMAIN data |-> times(residuals[i], residuals[i])] \o <<>>),
           num(Len(data)))

\* the whole hundreds and the remainder of 10000 * c / d, by long division
scaled(c, d) ==
  LET r0 == c % d
      r1 == (100 * r0) % d
      r2 == (100 * r1) % d
  IN  [whole |-> 10000 * (c \div d) + 100 * ((100 * r0) \div d) + (100 * r1) \div d,
       rest |-> r2]

\* Math.round(Math.max(0, Math.min(100, 100 - (stdDev / yMean * 100 * 0.5))))
\* with stdDev = Math.sqrt(v):  stdDev / 0 is NaN for stdDev = 0 and Infinity
\* otherwise, Math.min and Math.max return NaN for a NaN argument, and
\* 100 - Infinity is clamped to 0.  For mean > 0 the result is the largest
\* whole k <= 100 with k - 1/2 <= 100 - 50 * stdDev / mean, that is with
\* 10000 * v / mean^2 <= (201 - 2k)^2, and 0 if there is none.
confidence(v, mean) ==
  IF mean.n = 0 THEN (IF v.n = 0 THEN NaN ELSE num(0))
  ELSE LET w == over(v, times(mean, mean))
           s == scaled(w.n, w.d)
           fits(k) == \/ s.whole < (201 - 2 * k) * (201 - 2 * k)
                      \/ s.whole = (201 - 2 * k) * (201 - 2 * k) /\ s.rest = 0
       IN  IF fits(0)
           THEN num(CHOOSE k \in 0..100 : fits(k) /\ (k = 100 \/ ~fits(k + 1)))
           ELSE num(0)

\* Math.max(0, Math.round(predicted * 100) / 100)
predictedRevenue(predicted) ==
  LET r == roundedHundredths(predicted) IN IF r.n < 0 THEN num(0) ELSE r

\* the seven points pushed by the loop i = 1..7
forecast(data, a, b, c) ==
  LET n == Len(data)
  IN  [i \in 1..7 |->
         [date |-> data[n].date + i,
          predictedRevenue |-> predictedRevenue(plus(a, times(b, num(n - 1 + i)))),
          confidence |-> c]] \o <<>>

\* slope > yMean * 0.01 ? 'growing' : slope < -yMean * 0.01 ? 'declining' : 'stable'
trendDirection(b, mean) ==
  LET band == times(mean, frac(1, 100))
  IN  IF below(band, b) THEN "growing"
      ELSE IF below(b, minus(num(0), band)) THEN "declining"
      ELSE "stable"

\* historicalData.slice(-7) and historicalData.slice(-14, -7)
lastWeek(data) ==
  LET n == Len(data) IN SubSeq(data, IF n > 7 THEN n - 6 ELSE 1, n)

priorWeek(data) ==
  LET n == Len(data) IN SubSeq(data, IF n > 14 THEN n - 13 ELSE 1, n - 7)

\* n > 7 ? ((sum of the last 7 / sum of the 7 before) - 1) * 100 : 0
weeklyGrowth(data) ==
  IF Len(data) > 7
  THEN LET ratio == over(sumRevenue(lastWeek(data)), sumRevenue(priorWeek(data)))
       IN  IF finite(ratio) THEN times(minus(ratio, num(1)), num(100)) ELSE ratio
  ELSE num(0)

minimumSampleSix == 7 - 1

\* if (n < 7) return insufficient_data
minimumSample == 7

\* the handler: startDate is now minus 30 days; the constants of the
\* regression are bound one after the other, in the order of the code
RevenueForecast(t, now) ==
  \E data \in {historicalData(dailyRevenue(db, t, now - 30 * Day))} :
    /\ IF Len(data) < minimumSample
       THEN resp' = [route |-> "revenue-forecast", tenant |-> t, status |-> 200,
                     historical |-> data, forecast |-> <<>>,
                     trend |-> "insufficient_data", confidence |-> 0]
       ELSE \E mean \in {yMean(data)} :
            \E above \in {numerator(data, mean)}, bottom \in {denominator(data)} :
            \E b \in {slope(above, bottom)} :
            \E a \in {intercept(mean, b, Len(data))} :
            \E v \in {variance(data, a, b)} :
            \E c \in {confidence(v, mean)} :
            \E growth \in {weeklyGrowth(data)} :
              resp' = [route |-> "revenue-forecast", tenant |-> t, status |-> 200,
                       historical |-> data, forecast |-> forecast(data, a, b, c),
                       trend |-> trendDirection(b, mean),
                       weeklyGrowth |-> roundedHundredths(growth),
                       avgDailyRevenue |-> roundedHundredths(mean)]
    /\ last' = [path |-> "revenue-forecast", now |-> now]
    /\ UNCHANGED <<db, runs, sweep>>

\* ------------------------------------------------------------- specifications
\* Spec: the orchestrator with overlapping runs (single-type manual syncs and
\* sweeps), over a small shop
Next ==
  \/ \E t \in TenantIds, type \in {"customers", "orders", "products"} :
       SyncRoute(t, type, {})
  \/ Connect("B", "shpat", {})
  \/ \E r \in 1..MaxRuns : SyncCheck(r)
  \/ \E r \in 1..MaxRuns : CreateLog(r)
  \/ \E r \in 1..MaxRuns : RunType(r, "orch", TRUE, {})
  \/ \E r \in 1..MaxRuns : Stamp(r)
  \/ \E queue \in Orderings(eligible(db)) : SweepStart(queue)
  \/ SweepLoop
  \/ \E t \in TenantIds : Deliver(t, "orch", {"none"}, {"valid"}, {})

Spec == Init /\ [][Next]_vars

Quiescent == \A r \in DOMAIN runs : Finished(r)

\* SpecStore: reconciliation by both paths over a richer shop, one run at a
\* time, the record reconciled last observed
NextStore ==
  \/ \E type \in {"customers", "orders", "products"} :
       Quiescent /\ SyncRoute("A", type, {"last"})
  \/ \E r \in 1..MaxRuns : SyncCheck(r)
  \/ \E r \in 1..MaxRuns : CreateLog(r)
  \/ \E r \in 1..MaxRuns : RunType(r, "store", FALSE, {"last"})
  \/ \E r \in 1..MaxRuns : Stamp(r)
  \/ \E t \in TenantIds : Deliver(t, "store", {"none"}, {"valid"}, {"last"})

SpecStore == Init /\ [][NextStore]_vars

\* SpecApi: the HTTP routes with their responses observed, one run at a time
NextApi ==
  \/ \E t \in RequestTenants, type \in {"all", "customers"} :
       Quiescent /\ SyncRoute(t, type, {"resp"})
  \/ \E t \in {"B", UnknownTenant}, accessToken \in {"", "shpat"} :
       Connect(t, accessToken, {"resp"})
  \/ \E t \in {"B", UnknownTenant} : Quiescent /\ Invoke(t)
  \/ \E r \in 1..MaxRuns : SyncCheck(r)
  \/ \E r \in 1..MaxRuns : CreateLog(r)
  \/ \E r \in 1..MaxRuns : RunType(r, "orch", TRUE, {"resp"})
  \/ \E r \in 1..MaxRuns : Stamp(r)
  \/ \E t \in {"A", UnknownTenant} :
       \/ Deliver(t, "api", {"none"}, Signatures, {"resp"})
       \/ Deliver(t, "faulty", {"findTenant", "write"}, {"valid"}, {"resp"})

SpecApi == Init /\ [][NextApi]_vars

\* SpecHook: the webhook route over every handler, each request observed with
\* its topic and signature, beside manual runs that write SyncLog rows
NextHook ==
  \/ Quiescent /\ SyncRoute("A", "customers", {})
  \/ \E r \in 1..MaxRuns : SyncCheck(r)
  \/ \E r \in 1..MaxRuns : CreateLog(r)
  \/ \E r \in 1..MaxRuns : RunType(r, "orch", TRUE, {})
  \/ \E r \in 1..MaxRuns : Stamp(r)
  \/ Deliver("A", "hook", {"none", "write"}, Signatures, {"resp", "req"})

SpecHook == Init /\ [][NextHook]_vars

\* SpecBatch: manual customer syncs over pages of several records, the page
\* fetched and the point of failure observed
NextBatch ==
  \/ Quiescent /\ SyncRoute("A", "customers", {})
  \/ \E r \in 1..MaxRuns : SyncCheck(r)
  \/ \E r \in 1..MaxRuns : CreateLog(r)
  \/ \E r \in 1..MaxRuns : RunType(r, "batch", TRUE, {"batch"})
  \/ \E r \in 1..MaxRuns : Stamp(r)

SpecBatch == Init /\ [][NextBatch]_vars

\* SpecOverlap: manual order syncs of tenant A that need not wait for one
\* another, over a shop whose orders do not change meanwhile
OverlapPages == {<<oAB>>, <<oC>>, <<oC, oAB>>}

NextOverlap ==
  \/ SyncRoute("A", "orders", {})
  \/ \E r \in 1..MaxRuns : SyncCheck(r)
  \/ \E r \in 1..MaxRuns : CreateLog(r)
  \/ \E r \in 1..MaxRuns, page \in OverlapPages : FetchOrders(r, page)
  \/ \E r \in 1..MaxRuns : OrderStep(r)
  \/ \E r \in 1..MaxRuns : CloseOrders(r)
  \/ \E r \in 1..MaxRuns : Stamp(r)

SpecOverlap == Init /\ [][NextOverlap]_vars

\* SpecSweep: sweeps only, over a tenant that is swept and a tenant that may
\* be deactivated, without a token until it is connected
InitSweep ==
  /\ \E active \in BOOLEAN :
        db = [tenant |-> [t \in TenantIds |->
                            [accessToken |-> IF t = "A" THEN "shpat" ELSE Null,
                             isActive |-> IF t = "A" THEN TRUE ELSE active,
                             lastSyncAt |-> 0]],
              customer |-> {},
              order |-> {},
              orderLineItem |-> EmptyBag,
              product |-> {},
              event |-> <<>>,
              syncLog |-> <<>>]
  /\ runs = <<>>
  /\ sweep = [pc |-> "idle", queue |-> <<>>, cur |-> 0]
  /\ resp = NoResp
  /\ last = NoLast

NextSweep ==
  \/ Connect("B", "shpat", {})
  \/ \E queue \in Orderings(eligible(db)) : SweepStart(queue)
  \/ SweepLoop
  \/ \E r \in 1..MaxRuns : SyncCheck(r)
  \/ \E r \in 1..MaxRuns : CreateLog(r)
  \/ \E r \in 1..MaxRuns : RunType(r, "orch", TRUE, {})
  \/ \E r \in 1..MaxRuns : Stamp(r)
  \/ Deliver("B", "orch", {"none"}, {"valid"}, {})

SpecSweep == InitSweep /\ [][NextSweep]_vars

\* SpecRfm: GET /rfm-segments over stores of tenant A that hold one customer
\* of any profile around the score boundaries, up to three customers that
\* never ordered, and a customer of tenant B
Frequencies == {0, 1, 2, 3, 4, 5, 9, 10}
Monetaries == {0, 49, 50, 199, 200, 499, 500, 999, 1000}
\* age of the newest order, in half days; 0 for no order
Ages == {0, 10, 15, 16, 61, 62, 181, 182, 361, 362}
Now == 1000

customerRow(t, n, name, ordersCount, totalSpent) ==
  [id |-> <<t, ToString(n), 0>>, tenantId |-> t, shopifyId |-> ToString(n),
   firstName |-> name, totalSpent |-> totalSpent, ordersCount |-> ordersCount]

orderRow(t, n, customerId, orderDate) ==
  [id |-> <<t, ToString(n), 0>>, tenantId |-> t, shopifyId |-> ToString(n),
   totalPrice |-> 10, customerId |-> customerId, orderDate |-> orderDate]

\* customers that never ordered, named by their number
Crowd == [i \in 1..MaxCrowd |-> customerRow("A", i + 1, ToString(i + 1), i % 2, 10 * i)]

InitRfm ==
  /\ \E f \in Frequencies, m \in Monetaries, age \in Ages, k \in 0..MaxCrowd :
        LET ann == customerRow("A", 1, "Ann", f, m)
            zed == customerRow("B", 1, "Zed", 10, 1000)
        IN  db = [tenant |-> [t \in TenantIds |->
                                [accessToken |-> "shpat", isActive |-> TRUE,
                                 lastSyncAt |-> 1]],
                  customer |-> {ann, zed} \cup {Crowd[i] : i \in 1..k},
                  order |-> {orderRow("B", 1, zed.id, Now - 2)}
                            \cup (IF age = 0 THEN {}
                                  ELSE {orderRow("A", 7, ann.id, Now - age),
                                        orderRow("A", 8, ann.id, Now - age - 400)}),
                  orderLineItem |-> EmptyBag,
                  product |-> {},
                  event |-> <<>>,
                  syncLog |-> <<>>]
  /\ runs = <<>>
  /\ sweep = [pc |-> "idle", queue |-> <<>>, cur |-> 0]
  /\ resp = NoResp
  /\ last = NoLast

\* the store does not change here, so one request is followed per store
NextRfm ==
  /\ resp = NoResp
  /\ \E customers \in Orderings(findMany(db.customer, "A")), now \in {Now, Now + 1} :
        RfmSegments("A", customers, now)

SpecRfm == InitRfm /\ [][NextRfm]_vars

\* SpecForecast: GET /revenue-forecast over stores of tenant A that hold one
\* order on each of the last n days, possibly a second order on the last day,
\* an order made exactly 30 days before Now, and an order of tenant B
Revenues == {0, 3}
Today == Now \div Day

InitForecast ==
  /\ \E n \in 0..MaxBuckets :
     \E revenue \in [1..n -> Revenues], second \in BOOLEAN :
        /\ second => n > 0
        /\ db = [tenant |-> [t \in TenantIds |->
                               [accessToken |-> "shpat", isActive |-> TRUE,
                                lastSyncAt |-> 1]],
                 customer |-> {},
                 order |->
                   {[orderRow("A", i, NullId, (Today - (n - i)) * Day)
                       EXCEPT !.totalPrice = revenue[i]] : i \in 1..n}
                   \cup (IF second THEN {orderRow("A", n + 1, NullId, Today * Day + 1)}
                         ELSE {})
                   \cup {orderRow("A", 0, NullId, Now - 30 * Day),
                         orderRow("B", 0, NullId, Now)},
                 orderLineItem |-> EmptyBag,
                 product |-> {},
                 event |-> <<>>,
                 syncLog |-> <<>>]
  /\ runs = <<>>
  /\ sweep = [pc |-> "idle", queue |-> <<>>, cur |-> 0]
  /\ resp = NoResp
  /\ last = NoLast

\* the store does not change here, so one request is followed per store
NextForecast ==
  /\ resp = NoResp
  /\ \E now \in {Now, Now + 1} : RevenueForecast("A", now)

SpecForecast == InitForecast /\ [][NextForecast]_vars

\* SpecScheduler: a process in which startScheduler is called any number of
\* times, at any moment, beside the sweeps its timer starts
InitScheduler ==
  /\ db = [tenant |-> [t \in TenantIds |->
                         [accessToken |-> "shpat", isActive |-> TRUE,
                          lastSyncAt |-> 0]],
           customer |-> {},
           order |-> {},
           orderLineItem |-> EmptyBag,
           product |-> {},
           event |-> <<>>,
           syncLog |-> <<>>]
  /\ runs = <<>>
  /\ sweep = [pc |-> "idle", queue |-> <<>>, cur |-> 0,
              schedulerStarted |-> FALSE, timers |-> <<>>, calls |-> 0]
  /\ resp = NoResp
  /\ last = NoLast

NextScheduler ==
  \/ StartScheduler
  \/ \E i \in 1..(2 * MaxCalls) : Tick(i)
  \/ SweepLoop
  \/ \E r \in 1..MaxRuns : SyncCheck(r)
  \/ \E r \in 1..MaxRuns : CreateLog(r)
  \/ \E r \in 1..MaxRuns : RunType(r, "orch", TRUE, {})
  \/ \E r \in 1..MaxRuns : Stamp(r)

SpecScheduler == InitScheduler /\ [][NextScheduler]_vars

\* SpecRef: pulls and webhooks of two tenants whose shops hold the same
\* external ids, one run at a time
NextRef ==
  \/ \E t \in TenantIds, type \in {"customers", "orders"} :
       Quiescent /\ SyncRoute(t, type, {})
  \/ Connect("B", "shpat", {})
  \/ \E r \in 1..MaxRuns : SyncCheck(r)
  \/ \E r \in 1..MaxRuns : CreateLog(r)
  \/ \E r \in 1..MaxRuns : RunType(r, "ref", FALSE, {})
  \/ \E r \in 1..MaxRuns : Stamp(r)
  \/ \E t \in TenantIds : Deliver(t, "ref", {"none"}, {"valid"}, {})

SpecRef == Init /\ [][NextRef]_vars

\* SpecLive: invocations of syncTenantData in which every gateway call and
\* every store call returns, with a result or with an error, the
\* syncLog.update calls included; an invocation that can take a step
\* eventually takes one
RunStep(r) ==
  \/ SyncCheck(r)
  \/ CreateLog(r)
  \/ RunType(r, "orch", TRUE, {})
  \/ RunTypeUnlogged(r, "orch")
  \/ Stamp(r)

NextLive ==
  \/ \E t \in RequestTenants : Invoke(t)
  \/ \E r \in 1..MaxRuns : RunStep(r)

SpecLive ==
  Init /\ [][NextLive]_vars /\ \A r \in 1..MaxRuns : WF_vars(RunStep(r))

\* ------------------------------------------------------------- reconciliation
\* the column values the payload is to leave in its row, read off the
\* payloads above (an update leaves a column alone when the payload lacks it)
Written(path, kind, t, p) ==
  CASE p = cAnn -> [firstName |-> "Ann", totalSpent |-> 50, ordersCount |-> 2]
    [] p = cBob -> [firstName |-> "Bob", totalSpent |-> 0, ordersCount |-> 0]
    [] p = oAB /\ path = "pull" -> [totalPrice |-> 10, customerId |-> <<t, "1", 0>>]
    [] p = oAB /\ path = "webhook" -> [totalPrice |-> 10]
    [] p = oC /\ path = "pull" -> [totalPrice |-> 20, customerId |-> NullId]
    [] p = oC /\ path = "webhook" -> [totalPrice |-> 20]
    [] p = pMug -> [title |-> "Mug", price |-> 5]
    [] p = pCup -> [price |-> 0]

\* the rows stored under the natural key of the record reconciled last
lastRows == findUnique(tableOf(db, last.kind), last.tenant, String(last.payload, "id"))

\* the line items a payload lists, as rows of the order with the given id
ItemsBag(orderId, list) ==
  SetToBag({[orderId |-> orderId, shopifyId |-> ToString(list[i].id)] : i \in DOMAIN list})

\* C1: when a record is reconciled and the same tenant, kind and payload is
\* reconciled again next (by the pull routine or by the webhook handler), the
\* store holds exactly one row with that natural key, the second
\* reconciliation added no row, and the row holds the values of the second
\* write.
C1_Idempotent ==
  (last.path # "none" /\ last.again) =>
     /\ Cardinality(lastRows) = 1
     /\ ~last.added
     /\ \A r \in lastRows :
          LET w == Written(last.path, last.kind, last.tenant, last.payload)
          IN  \A f \in DOMAIN w : r[f] = w[f]

\* an order pulled twice in a row, while the other tenant holds a customer
\* under the same shopifyId as this tenant does
C1_Witness ==
  /\ last.path = "pull"
  /\ last.again
  /\ last.payload = oAB
  /\ findUnique(db.customer, "A", "1") # {}
  /\ findUnique(db.customer, "B", "1") # {}

\* everything the store holds for one tenant
rowsOf(d, t) ==
  LET orders == {o \in d.order : o.tenantId = t}
  IN  [tenant |-> d.tenant[t],
       customer |-> {c \in d.customer : c.tenantId = t},
       order |-> orders,
       product |-> {q \in d.product : q.tenantId = t},
       orderLineItem |-> [r \in {x \in DOMAIN d.orderLineItem :
                                   x.orderId \in {o.id : o \in orders}}
                            |-> d.orderLineItem[r]],
       syncLog |-> SelectSeq(d.syncLog, LAMBDA l : l.tenantId = t),
       event |-> SelectSeq(d.event, LAMBDA e : e.tenantId = t)]

\* the tenants whose rows the step changes
changedTenants == {t \in TenantIds : rowsOf(db', t) # rowsOf(db, t)}

IsolatedStep ==
  /\ Cardinality(changedTenants) <= 1
  /\ last' # last => changedTenants \subseteq {last'.tenant}
  /\ \A r \in DOMAIN runs :
       (~Finished(r) /\ runs'[r] # runs[r]) => changedTenants \subseteq {runs[r].tenant}

Scoped ==
  /\ \A table \in {db.customer, db.order, db.product} :
       \A r1, r2 \in table :
          /\ (r1.tenantId = r2.tenantId /\ r1.shopifyId = r2.shopifyId) => r1 = r2
          /\ r1 # r2 => r1.id # r2.id
  /\ \A o \in db.order :
       o.customerId # NullId =>
         \E c \in db.customer : c.id = o.customerId /\ c.tenantId = o.tenantId
  /\ \A t \in TenantIds :
       \A i \in DOMAIN syncStatus(db, t).recentLogs :
          syncStatus(db, t).recentLogs[i].tenantId = t

\* C2: every reconciliation, log write and stamp changes the rows of its own
\* tenant only: a step changes the rows of at most one tenant, the tenant of
\* the record reconciled or of the run that moved; the natural key is unique
\* per tenant, so two tenants holding the same shopifyId hold two rows; an
\* order references a customer of its own tenant; the status read of a tenant
\* lists that tenant's logs only.
C2_TenantIsolation == []Scoped /\ [][IsolatedStep]_vars

\* both tenants hold customer "1", with different values, tenant A having
\* reconciled last
C2_Witness ==
  /\ last.path # "none"
  /\ last.tenant = "A"
  /\ last.kind = "customers"
  /\ \E a \in findUnique(db.customer, "A", "1"), b \in findUnique(db.customer, "B", "1") :
       a.firstName = "Ann" /\ b.firstName = "Bob"

\* C3: after syncOrders reconciles an order whose payload lists line items,
\* the line items stored for the order are exactly the payload's, whatever
\* was stored before: [A, B] followed by [C] leaves exactly [C].
C3_PullReplacesItems ==
  (last.path = "pull" /\ last.kind = "orders" /\ Has(last.payload, "line_items")) =>
     \A o \in lastRows :
        itemsOf(db, last.tenant, String(last.payload, "id"))
          = ItemsBag(o.id, last.payload.line_items)

\* the order held [A, B] and the pull just delivered it with [C]
C3_Witness ==
  /\ last.path = "pull"
  /\ last.payload = oC
  /\ last.itemsBefore = ItemsBag(<<"A", "7", 0>>, <<itemA, itemB>>)
  /\ itemsOf(db, "A", "7") = ItemsBag(<<"A", "7", 0>>, <<itemC>>)

\* C4: by either path, the line items stored for an order are exactly those
\* of the payload of that order reconciled last.
C4_ItemsFollowLastPayload ==
  (last.path # "none" /\ last.kind = "orders" /\ Has(last.payload, "line_items")) =>
     \A o \in lastRows :
        itemsOf(db, last.tenant, String(last.payload, "id"))
          = ItemsBag(o.id, last.payload.line_items)

\* ------------------------------------------------------------- orchestration
Terminal == {"completed", "failed"}

LogShape ==
  \A i \in DOMAIN db.syncLog :
     LET row == db.syncLog[i]
     IN  /\ row.id = i
         /\ row.status \in {"running"} \cup Terminal
         /\ row.status = "running" <=> row.completedAt = 0
         /\ row.completedAt <= 1

LogStep ==
  /\ Len(db'.syncLog) >= Len(db.syncLog)
  /\ \A i \in DOMAIN db'.syncLog :
       LET new == db'.syncLog[i]
       IN  IF i \notin DOMAIN db.syncLog
           THEN /\ new.status = "running"
                /\ new.itemCount = 0
                /\ new.error = Null
                /\ new.completedAt = 0
           ELSE LET old == db.syncLog[i]
                IN  \/ new = old
                    \/ /\ old.status = "running"
                       /\ new.status \in Terminal
                       /\ new.completedAt = old.completedAt + 1
                       /\ new.id = old.id
                       /\ new.tenantId = old.tenantId
                       /\ new.type = old.type

\* C5: every SyncLog row is created running; the only change a row ever sees
\* is the one step from running to completed or to failed, which stamps
\* completedAt; a completed or failed row is never written again, whatever
\* manual syncs, sweeps and webhooks run beside it.
C5_LogLifecycle == []LogShape /\ [][LogStep]_vars

\* a completed, a failed and a running row side by side, with a customer
\* stored by a reconciliation
C5_Witness ==
  /\ \E i, j, k \in DOMAIN db.syncLog :
        /\ db.syncLog[i].status = "completed"
        /\ db.syncLog[j].status = "failed"
        /\ db.syncLog[k].status = "running"
        /\ i < k /\ j < k
  /\ db.customer # {}

lastSyncAtOf(d, t) == d.tenant[t].lastSyncAt

StampStep ==
  /\ \A t \in TenantIds :
       lastSyncAtOf(db', t) # lastSyncAtOf(db, t) =>
         /\ lastSyncAtOf(db', t) = lastSyncAtOf(db, t) + 1
         /\ \E r \in DOMAIN runs :
               /\ runs[r].pc = "stamp"
               /\ runs'[r].pc = "done"
               /\ runs[r].tenant = t
               /\ Len(runs[r].logs) = Len(runs[r].types)
               /\ \A i \in DOMAIN runs[r].logs :
                     LET row == db.syncLog[runs[r].logs[i]]
                     IN  /\ row.status \in Terminal
                         /\ row.type = runs[r].types[i]
                         /\ row.tenantId = t
  /\ \A r \in DOMAIN runs :
       IF Finished(r) THEN runs'[r] = runs[r]
       ELSE runs'[r].pc \in {"done", "rejected"} =>
              \/ /\ runs[r].pc = "check"
                 /\ runs'[r].pc = "rejected"
                 /\ db' = db
              \/ /\ runs[r].pc = "stamp"
                 /\ runs'[r].pc = "done"
                 /\ lastSyncAtOf(db', runs[r].tenant) = lastSyncAtOf(db, runs[r].tenant) + 1

RECURSIVE SumStamps(_)
SumStamps(T) ==
  IF T = {} THEN 0
  ELSE LET t == CHOOSE x \in T : TRUE
       IN  lastSyncAtOf(db, t) + SumStamps(T \ {t})

StampCount ==
  SumStamps(TenantIds) = Cardinality({r \in DOMAIN runs : runs[r].pc = "done"})

FailureStep ==
  /\ \A r \in DOMAIN runs :
       (~Finished(r) /\ runs[r].pc = "exec" /\ runs'[r] # runs[r]) =>
          LET run == runs[r]
              row == db'.syncLog[run.logs[Len(run.logs)]]
          IN  /\ row.status \in Terminal
              /\ row.status = "failed" => row.error \in {"Shopify API error", "store error"}
              /\ runs'[r].pc = IF run.idx = Len(run.types) THEN "stamp" ELSE "create"
              /\ runs'[r].idx = run.idx + 1
              /\ runs'[r].types = run.types
  /\ (sweep.pc = "loop" /\ sweep' # sweep) =>
       IF sweep.queue = <<>>
       THEN sweep'.pc = "idle"
       ELSE /\ sweep'.pc = "loop"
            /\ sweep'.queue = Tail(sweep.queue)
            /\ runs' = Append(runs, newRun(Head(sweep.queue), AllTypes, "sweep"))

FailureShape ==
  /\ \A i \in DOMAIN db.syncLog :
       db.syncLog[i].status = "failed" <=> db.syncLog[i].error # Null
  /\ \A r \in DOMAIN runs :
       (~Finished(r) /\ runs[r].pc = "stamp") => Len(runs[r].logs) = Len(runs[r].types)

connected(d, t) == t \in DOMAIN d.tenant /\ d.tenant[t].accessToken # Null

\* the run the step starts, when it starts one
started == runs'[Len(runs')]

NotConnectedStep ==
  /\ (resp' # resp /\ resp'.route = "sync") =>
        /\ resp'.status = IF resp'.tenant \notin DOMAIN db.tenant THEN 404
                          ELSE IF ~connected(db, resp'.tenant) THEN 400
                          ELSE 200
        /\ resp'.status # 200 => (db' = db /\ runs' = runs)
  /\ (Len(runs') > Len(runs) /\ started.caller = "route") => connected(db, started.tenant)
  /\ \A r \in DOMAIN runs :
       (~Finished(r) /\ runs[r].pc = "check" /\ runs'[r] # runs[r]) =>
          /\ runs[r].logs = <<>>
          /\ db' = db
          /\ runs'[r].pc = IF connected(db, runs[r].tenant) THEN "create" ELSE "rejected"
  /\ Len(db'.syncLog) > Len(db.syncLog) =>
        connected(db, db'.syncLog[Len(db'.syncLog)].tenantId)
  /\ \A t \in TenantIds :
       lastSyncAtOf(db', t) # lastSyncAtOf(db, t) => connected(db, t)

NotConnectedShape ==
  \A t \in TenantIds :
     ~connected(db, t) =>
        /\ lastSyncAtOf(db, t) = 0
        /\ \A i \in DOMAIN db.syncLog : db.syncLog[i].tenantId # t

\* C6: the sync route answers 404 for a tenant that does not exist and 400
\* for one without an access token, and that request changes neither the
\* store nor the runs; syncTenantData called for such a tenant is rejected at
\* its check, before any SyncLog row and with the store unchanged; SyncLog
\* rows and lastSyncAt are written for connected tenants only.
C6_NotConnected == []NotConnectedShape /\ [][NotConnectedStep]_vars

\* the route has refused tenant B, syncTenantData called for a tenant without
\* a token was rejected, and tenant A has logs
C6_Witness ==
  /\ resp.route = "sync"
  /\ resp.status = 400
  /\ resp.tenant = "B"
  /\ \E r \in DOMAIN runs : runs[r].pc = "rejected"
  /\ db.syncLog # <<>>

AcceptStep ==
  /\ (Len(runs') > Len(runs) /\ started.caller = "route") =>
        /\ resp' = [route |-> "sync", tenant |-> started.tenant, status |-> 200,
                    message |-> [text |-> "Sync started for: ", types |-> started.types]]
        /\ started.pc = "check"
        /\ started.logs = <<>>
        /\ db' = db
  /\ (runs' # runs /\ Len(runs') = Len(runs)) => resp' = resp
  /\ \A r \in DOMAIN runs :
       (/\ ~Finished(r)
        /\ runs[r].caller = "route"
        /\ runs'[r].pc = "done"
        /\ resp.route = "sync"
        /\ resp.status = 200) =>
          LET k == Len(runs[r].types)
              status == syncStatus(db', resp.tenant)
          IN  /\ resp.tenant = runs[r].tenant
              /\ resp.message.types = runs[r].types
              /\ status.lastSyncAt = lastSyncAtOf(db, resp.tenant) + 1
              /\ \A i \in 1..k :
                    /\ status.recentLogs[i].id = runs[r].logs[k + 1 - i]
                    /\ status.recentLogs[i].type = runs[r].types[k + 1 - i]
                    /\ status.recentLogs[i].status \in Terminal

\* C9: the step that starts a manual run answers 200 with the acceptance
\* message naming exactly the run's types, the run still at its check and no
\* SyncLog of it written; no later step of a run changes the response; when
\* the run ends, completed or failed, the status query of the tenant shows
\* its SyncLog rows terminal and lastSyncAt advanced.
C9_AcceptImmediately == [][AcceptStep]_vars

\* the acceptance of a sync of all types still stands as the response after
\* the run has ended with a failed and a completed type
C9_Witness ==
  /\ resp.route = "sync"
  /\ resp.status = 200
  /\ resp.message.types = AllTypes
  /\ Len(runs) = 1
  /\ runs[1].pc = "done"
  /\ \E i, j \in DOMAIN recentLogs(db, resp.tenant) :
        /\ recentLogs(db, resp.tenant)[i].status = "failed"
        /\ recentLogs(db, resp.tenant)[j].status = "completed"

Answered == resp' # resp /\ resp'.route = "webhook"

\* the request was processed without an error
Processed(r) == r.status = 200 /\ "error" \notin DOMAIN r

\* C11: a delivery whose signature does not match its body changes no
\* Customer, Order, Product or Event row, and is still answered 200.
C11_InvalidSignatureNotApplied ==
  [][(Answered /\ resp'.signature = "invalid") =>
        /\ db'.customer = db.customer
        /\ db'.order = db.order
        /\ db'.product = db.product
        /\ db'.event = db.event
        /\ resp'.status = 200]_vars

LogFrameStep ==
  Answered =>
     /\ db'.syncLog = db.syncLog
     /\ \A t \in TenantIds : lastSyncAtOf(db', t) = lastSyncAtOf(db, t)
     /\ runs' = runs

\* C12: the step that answers a webhook request, of any topic and whether
\* processing succeeded or failed, leaves every SyncLog row as it was, adds
\* none, and leaves lastSyncAt of every tenant unchanged.
C12_WebhookLeavesLogs == [][LogFrameStep]_vars

\* an order delivery was applied while the tenant had a finished run, stamped,
\* and a run with its SyncLog still running
C12_Witness ==
  /\ resp.route = "webhook"
  /\ resp.topic = "orders/create"
  /\ Processed(resp)
  /\ lastSyncAtOf(db, "A") = 1
  /\ \E i, j \in DOMAIN db.syncLog :
        db.syncLog[i].status \in Terminal /\ db.syncLog[j].status = "running"

\* the event type a cart topic is stored under
eventTypeOf(topic) ==
  CASE topic \in {"carts/create", "carts/update"} -> "cart_updated"
    [] topic = "checkouts/create" -> "checkout_started"
    [] topic = "checkouts/delete" -> "cart_abandoned"

EventStep ==
  /\ Len(db'.event) >= Len(db.event)
  /\ SubSeq(db'.event, 1, Len(db.event)) = db.event
  /\ IF Answered /\ resp'.topic \in CartTopics /\ Processed(resp')
     THEN /\ Len(db'.event) = Len(db.event) + 1
          /\ LET row == db'.event[Len(db'.event)]
             IN  /\ row.source = "webhook"
                 /\ row.tenantId = resp'.tenant
                 /\ row.type = eventTypeOf(resp'.topic)
     ELSE db'.event = db.event

\* C19: the step that answers a successfully processed cart or checkout
\* delivery appends exactly one Event row, of source "webhook" and of the
\* request's tenant, also when the same payload was delivered before; every
\* other step (failed deliveries, other topics, sync runs) leaves the Event
\* rows as they are; no step changes or removes an existing Event row.
C19_EventsAppendOnly == [][EventStep]_vars

\* the same cart payload delivered twice has left two equal rows
C19_Witness ==
  /\ Len(db.event) = 2
  /\ db.event[1] = db.event[2]
  /\ db.event[1].source = "webhook"
  /\ db.syncLog # <<>>

\* ------------------------------------------------------------- the two paths
\* the topic that delivers a record kind by webhook
topicOf(kind) ==
  CASE kind = "customers" -> "customers/update"
    [] kind = "orders" -> "orders/updated"
    [] kind = "products" -> "products/update"

\* C13: in every reachable store, for every tenant, record kind and payload,
\* reconciling the payload by the webhook handler and by the pull routine
\* give the same store.
C13_PathSymmetry ==
  \A t \in TenantIds, kind \in {"customers", "orders", "products"} :
     \A p \in StoreShop("A", kind) :
        dispatch(db, t, topicOf(kind), p) = syncRecord(db, t, kind, p)

\* C14: after an order payload that embeds a customer with an id is
\* reconciled, by either path, the Customer row with that natural key exists
\* and the stored order references it.
C14_EmbeddedCustomerLinked ==
  (last.path # "none" /\ last.kind = "orders" /\ hasCustomer(last.payload)) =>
     \E c \in findUnique(db.customer, last.tenant, String(last.payload.customer, "id")) :
        /\ lastRows # {}
        /\ \A o \in lastRows : o.customerId = c.id

\* customerName of GET /recent-orders: the customer's name (its email when it
\* has no name), "Guest" for an order without a customer
customerName(d, o) ==
  IF o.customerId = NullId THEN "Guest"
  ELSE (CHOOSE c \in d.customer : c.id = o.customerId).firstName

recentOrders(d, t) ==
  {[id |-> o.id, totalPrice |-> o.totalPrice, customerName |-> customerName(d, o)] :
     o \in {x \in d.order : x.tenantId = t}}

\* C15: after an order payload without an embedded customer is reconciled, by
\* either path, the stored order has customerId null, whatever it referenced
\* before, and the recent-orders projection names it "Guest".
C15_GuestOrder ==
  (last.path # "none" /\ last.kind = "orders" /\ ~hasCustomer(last.payload)) =>
     /\ \A o \in lastRows : o.customerId = NullId
     /\ \A row \in recentOrders(db, last.tenant) :
          row.id \in {o.id : o \in lastRows} => row.customerName = "Guest"

\* ------------------------------------------------------------- batches
\* the step reconciles a fetched page
Fetched == last' # last /\ last'.path = "batch" /\ ~last'.gatewayFails

keyOf(p) == String(p, "id")

\* the SyncLog row the step closes: the one row that changed
closed == CHOOSE i \in DOMAIN db.syncLog : db'.syncLog[i] # db.syncLog[i]

\* the customer row of the tenant under the key holds the record's name
holds(d, t, p) ==
  \E c \in findUnique(d.customer, t, keyOf(p)) : c.firstName = p.first_name

\* C17: a record of a page that has no id is skipped: no row is stored for
\* it, the records with an id are reconciled, and the SyncLog ends completed
\* with itemCount the number of records reconciled.
C17_RecordWithoutKeySkipped ==
  [][(Fetched /\ last'.failAt = 0) =>
        LET page == last'.page
            good == {i \in DOMAIN page : Has(page[i], "id")}
        IN  /\ \A c \in db'.customer : c.shopifyId # "undefined"
            /\ \A i \in good : holds(db', last'.tenant, page[i])
            /\ db'.syncLog[closed].status = "completed"
            /\ db'.syncLog[closed].itemCount = Cardinality(good)]_vars

AbortStep ==
  (Fetched /\ last'.failAt > 0) =>
     LET page == last'.page
         k == last'.failAt
         t == last'.tenant
         before == {keyOf(page[i]) : i \in 1..(k - 1)}
     IN  /\ \A i \in 1..(k - 1) :
              \E j \in i..(k - 1) :
                 keyOf(page[j]) = keyOf(page[i]) /\ holds(db', t, page[j])
         /\ \A c \in db.customer \cup db'.customer :
              c.shopifyId \notin before => (c \in db.customer /\ c \in db'.customer)
         /\ db'.syncLog[closed].status = "failed"
         /\ db'.syncLog[closed].error = "store error"
         /\ Len(db'.syncLog) = Len(db.syncLog)
         /\ Len(runs') = Len(runs)
         /\ \A r \in DOMAIN runs :
              runs'[r] # runs[r] => runs'[r].pc \in {"create", "stamp"}

\* every run logs each of its types once
NoRetry == Len(db.syncLog) <= Len(runs)

sweepable(d, t) == d.tenant[t].isActive /\ connected(d, t)

SweepOnlyStep ==
  /\ Len(runs') > Len(runs) =>
        (started.caller = "sweep" /\ sweepable(db, started.tenant))
  /\ runs' # runs =>
        \A t \in TenantIds : ~sweepable(db, t) => rowsOf(db', t) = rowsOf(db, t)

SweepOnlyShape ==
  \A t \in TenantIds :
     ~sweepable(db, t) =>
        /\ lastSyncAtOf(db, t) = 0
        /\ \A i \in DOMAIN db.syncLog : db.syncLog[i].tenantId # t

\* C20: a sweep starts runs only for tenants that are active and have an
\* access token; no step of a run changes a row of a tenant that is inactive
\* or has no token, and such a tenant has no SyncLog row and lastSyncAt never
\* written.
C20_SweepEligibility == []SweepOnlyShape /\ [][SweepOnlyStep]_vars

\* tenant B, connected but inactive, holds a customer delivered by webhook and
\* was passed over by a sweep that synced tenant A
C20_Witness ==
  /\ ~db.tenant["B"].isActive
  /\ connected(db, "B")
  /\ findUnique(db.customer, "B", "1") # {}
  /\ lastSyncAtOf(db, "A") >= 1
  /\ \E i \in DOMAIN db.syncLog : db.syncLog[i].status = "failed"

\* ------------------------------------------------------------- overlap
\* the customers, orders and line items of the store
Store(d) == [customer |-> d.customer, order |-> d.order,
             orderLineItem |-> d.orderLineItem]

\* the initial store, before any run
Empty == [customer |-> {}, order |-> {}, orderLineItem |-> EmptyBag]

\* C16: once two or more runs that reconciled the same fetched page of orders
\* have all finished, the store equals the store one run leaves, whatever the
\* order in which their store operations interleaved.
C16_ConvergesUnderOverlap ==
  (/\ Len(runs) >= 2
   /\ \A r \in DOMAIN runs : Finished(r)
   /\ last.path = "batch")
    => Store(db) = Store(syncPage(Empty, "A", "orders", last.page))

\* ------------------------------------------------------------- segmentation
\* 1 + the number of lower bounds the value reaches
reached(v, bounds) == 1 + Cardinality({b \in bounds : v >= b})

\* 5 - the number of upper bounds the value exceeds
within(v, bounds) == 5 - Cardinality({b \in bounds : v > b})

\* the rules of the decision list, in priority order
Rules(R, F, M) ==
  <<R >= 4 /\ F >= 4 /\ M >= 4, F >= 4 /\ M >= 3, R >= 4 /\ F >= 2,
    R >= 4 /\ F = 1, R >= 3 /\ M >= 2, R <= 2 /\ F >= 3, R <= 2 /\ F >= 2, TRUE>>

firstRule(R, F, M) ==
  LET rules == Rules(R, F, M)
  IN  CHOOSE i \in 1..8 : rules[i] /\ \A j \in 1..(i - 1) : ~rules[j]

\* whole days from the newest stored order of the customer to the request,
\* 999 without an order
expectedDays(c) ==
  LET mine == {o \in db.order : o.customerId = c.id}
      newest == CHOOSE o \in mine : \A x \in mine : x.orderDate <= o.orderDate
  IN  IF mine = {} THEN 999 ELSE (last.now - newest.orderDate) \div Day

\* the entries of the response, each with the segment that lists it
listed ==
  UNION {{<<resp.segments[i].segment, resp.segments[i].topCustomers[j]>> :
            j \in DOMAIN resp.segments[i].topCustomers} :
         i \in DOMAIN resp.segments}

expectedR(c) == within(expectedDays(c), {7, 30, 90, 180})
expectedF(c) == reached(c.ordersCount, {2, 3, 5, 10})
expectedM(c) == reached(c.totalSpent, {50, 200, 500, 1000})
expectedSegment(c) == SegmentNames[firstRule(expectedR(c), expectedF(c), expectedM(c))]

\* the customers met in iteration order that belong to the segment
members(name) ==
  SelectSeq(last.customers, LAMBDA c : expectedSegment(c) = name)

\* the count the response gives for the segment, 0 when it is left out
countOf(name) ==
  LET rows == {i \in DOMAIN resp.segments : resp.segments[i].segment = name}
  IN  IF rows = {} THEN 0 ELSE resp.segments[CHOOSE i \in rows : TRUE].count

\* C21: every customer is scored R by the days since the last order (<= 7,
\* 30, 90, 180; 999 days without an order), F by ordersCount (>= 10, 5, 3, 2),
\* M by totalSpent (>= 1000, 500, 200, 50), and is placed in the segment of
\* the first matching rule; (10 orders, 1000 spent, 5 days) is Champions and
\* a customer without order, F = 1, M = 1 is Hibernating.
C21_RfmScoring ==
  resp.route = "rfm-segments" =>
    /\ \A k \in DOMAIN SegmentNames :
          countOf(SegmentNames[k]) = Len(members(SegmentNames[k]))
    /\ \A i \in DOMAIN last.customers :
          LET c == last.customers[i]
              name == expectedSegment(c)
              first == members(name)
          IN  /\ (\E j \in 1..3 : j <= Len(first) /\ first[j] = c)
                   => \E e \in listed :
                         /\ e[1] = name
                         /\ e[2].name = c.firstName
                         /\ e[2].daysSinceLastOrder = expectedDays(c)
                         /\ e[2].rfmScore = expectedR(c) + expectedF(c) + expectedM(c)
              /\ \A e \in listed : e[2].name = c.firstName => e[1] = name
              /\ (c.ordersCount = 10 /\ c.totalSpent = 1000 /\ expectedDays(c) = 5)
                   => (name = "Champions" /\ expectedR(c) = 5
                       /\ expectedF(c) = 5 /\ expectedM(c) = 5)
              /\ (expectedDays(c) = 999 /\ expectedF(c) = 1 /\ expectedM(c) = 1)
                   => (name = "Hibernating" /\ expectedR(c) = 1)

\* a customer with 10 orders, 1000 spent and a last order 5 days ago is
\* listed under Champions together with three customers that never ordered
C21_Witness ==
  /\ resp.route = "rfm-segments"
  /\ Len(last.customers) = 4
  /\ \E i \in DOMAIN resp.segments :
        /\ resp.segments[i].segment = "Champions"
        /\ resp.segments[i].topCustomers[1].daysSinceLastOrder = 5
        /\ resp.segments[i].topCustomers[1].ordersCount = 10
        /\ resp.segments[i].topCustomers[1].totalSpent = 1000
  /\ \E i \in DOMAIN resp.segments :
        /\ resp.segments[i].segment = "Hibernating"
        /\ resp.segments[i].count = 3

RECURSIVE sumSpent(_)
sumSpent(customers) ==
  IF customers = <<>> THEN 0 ELSE Head(customers).totalSpent + sumSpent(Tail(customers))

RECURSIVE sumCounts(_)
sumCounts(rows) ==
  IF rows = <<>> THEN 0 ELSE Head(rows).count + sumCounts(Tail(rows))

\* C30: the returned segments partition the customers of the tenant: their
\* counts sum to totalCustomers, none has count 0, no segment is returned
\* twice, the totalValue of each is the sum of totalSpent of its members, and
\* each lists its first min(count, 3) members in iteration order.
C30_SegmentsPartition ==
  resp.route = "rfm-segments" =>
    /\ resp.totalCustomers = Cardinality(findMany(db.customer, resp.tenant))
    /\ sumCounts(resp.segments) = resp.totalCustomers
    /\ \A i \in DOMAIN resp.segments :
          LET row == resp.segments[i]
              mine == members(row.segment)
              n == IF row.count < 3 THEN row.count ELSE 3
          IN  /\ row.count > 0
              /\ row.count = Len(mine)
              /\ \A j \in DOMAIN resp.segments : j # i => resp.segments[j].segment # row.segment
              /\ row.totalValue = sumSpent(mine)
              /\ Len(row.topCustomers) = n
              /\ \A j \in 1..n : /\ row.topCustomers[j].name = mine[j].firstName
                                 /\ row.topCustomers[j].totalSpent = mine[j].totalSpent

\* all four customers of the tenant fall in one segment, which lists three
\* of them, the first of them not the one that spent most
C30_Witness ==
  /\ resp.route = "rfm-segments"
  /\ \E i \in DOMAIN resp.segments :
        /\ resp.segments[i].count = 4
        /\ Len(resp.segments[i].topCustomers) = 3
        /\ resp.segments[i].topCustomers[1].totalSpent
             < resp.segments[i].topCustomers[2].totalSpent
  /\ resp.totalCustomers = 4

\* ------------------------------------------------------------- forecast
\* the days of the trailing 30 days on which the tenant has an order
buckets ==
  {o.orderDate \div Day :
     o \in {x \in db.order : x.tenantId = resp.tenant
                                /\ x.orderDate >= last.now - 30 * Day}}

\* the revenue of a day, from the stored orders
revenueOn(day) ==
  LET orders == {x \in db.order : x.tenantId = resp.tenant
                                    /\ x.orderDate \div Day = day}
  IN  sumPrice(orders)

\* C22: with fewer than 7 daily buckets in the trailing 30 days the result has
\* trend insufficient_data and an empty forecast, whatever the revenues; with
\* 7 or more it has exactly 7 forecast points and a trend among growing,
\* declining, stable.
C22_MinimumSample ==
  resp.route = "revenue-forecast" =>
    /\ Len(resp.historical) = Cardinality(buckets)
    /\ IF Cardinality(buckets) < 7
       THEN resp.trend = "insufficient_data" /\ resp.forecast = <<>>
       ELSE /\ Len(resp.forecast) = 7
            /\ resp.trend \in {"growing", "declining", "stable"}

\* a series of exactly 7 buckets with revenue is forecast, and comes out
\* declining
C22_Witness ==
  /\ resp.route = "revenue-forecast"
  /\ Cardinality(buckets) = 7
  /\ \E day \in buckets : revenueOn(day) > 0
  /\ Len(resp.forecast) = 7
  /\ resp.trend = "declining"

\* C23: for a series of 7 or more buckets of non-negative revenue, a series of
\* mean zero included, every forecast point has a confidence that is a number
\* within 0..100 and a predictedRevenue that is a number >= 0.
C23_ConfidenceWithinRange ==
  (resp.route = "revenue-forecast" /\ Cardinality(buckets) >= 7) =>
    \A i \in DOMAIN resp.forecast :
       LET point == resp.forecast[i]
       IN  /\ finite(point.confidence)
           /\ ~below(point.confidence, num(0))
           /\ ~below(num(100), point.confidence)
           /\ finite(point.predictedRevenue)
           /\ ~below(point.predictedRevenue, num(0))

\* C24: for a series of 7 or more buckets, also when the 7 buckets before the
\* last 7 sum to zero or are fewer than 7, weeklyGrowth is a finite number.
C24_WeeklyGrowthFinite ==
  (resp.route = "revenue-forecast" /\ Cardinality(buckets) >= 7) =>
    finite(resp.weeklyGrowth)

\* ------------------------------------------------------------- scheduler
registered(cron) ==
  Cardinality({i \in DOMAIN sweep.timers : sweep.timers[i] = cron})

\* before the first call nothing is registered; from the first call on each
\* of the two timers is registered once
SchedulerShape ==
  IF sweep.calls = 0
  THEN ~sweep.schedulerStarted /\ sweep.timers = <<>>
  ELSE /\ sweep.schedulerStarted
       /\ registered(SweepCron) = 1
       /\ registered(CleanupCron) = 1
       /\ Len(sweep.timers) = 2

\* a call made when the flag is set registers nothing and leaves the flag
\* set, and nothing but a call of startScheduler registers a timer
RestartStep ==
  /\ (sweep'.calls # sweep.calls /\ sweep.schedulerStarted) =>
        sweep'.timers = sweep.timers /\ sweep'.schedulerStarted
  /\ sweep'.calls = sweep.calls =>
        /\ sweep'.timers = sweep.timers
        /\ sweep'.schedulerStarted = sweep.schedulerStarted

\* C25: however many times startScheduler is called in one process, the
\* 15-minute sweep timer and the daily cleanup timer are each registered
\* exactly once; a call after the first registers nothing and leaves the
\* started flag true.
C25_StartIdempotent == []SchedulerShape /\ [][RestartStep]_vars

\* startScheduler was called more than once in a process whose timer started
\* a sweep
C25_Witness ==
  /\ sweep.calls >= 2
  /\ sweep.schedulerStarted
  /\ Len(sweep.timers) = 2
  /\ \E r \in DOMAIN runs : runs[r].caller = "sweep"

\* ------------------------------------------------------------- termination
\* the SyncLog rows the invocations can create
LogIds == 1..(MaxRuns * Len(AllTypes))

running(id) == id \in DOMAIN db.syncLog /\ db.syncLog[id].status = "running"

\* C26: when every gateway call and every store call returns, with a result
\* or with an error, every SyncLog row created by syncTenantData eventually
\* leaves the running state.
C26_LogsLeaveRunning == \A id \in LogIds : running(id) ~> ~running(id)

\* ------------------------------------------------------------- references
\* the customers an order refers to
referenced(o) == {c \in db.customer : c.id = o.customerId}

\* C27: in every reachable store state, an order whose customerId is not null
\* references an existing customer row of the order's own tenant, after any
\* pulls and webhooks of tenants that share external ids.
C27_OrderReferencesOwnCustomer ==
  \A o \in db.order :
     o.customerId # NullId =>
       /\ referenced(o) # {}
       /\ \A c \in referenced(o) : c.tenantId = o.tenantId

\* both tenants hold order "7" and customer "1", each order linked to the
\* customer of its own tenant
C27_Witness ==
  \E a \in findUnique(db.order, "A", "7"), b \in findUnique(db.order, "B", "7") :
     /\ a.customerId # NullId
     /\ b.customerId # NullId
     /\ a.customerId # b.customerId
     /\ findUnique(db.customer, "A", "1") # {}
     /\ findUnique(db.customer, "B", "1") # {}

\* ------------------------------------------------------------- sequence
\* the SyncLog rows of an invocation that has not ended
logsOf(r) == [i \in DOMAIN runs[r].logs |-> db.syncLog[runs[r].logs[i]]]

\* the tables a type writes
tablesOf(type) ==
  CASE type = "customers" -> {"customer"}
    [] type = "orders" -> {"customer", "order", "orderLineItem"}
    [] type = "products" -> {"product"}

changedTables ==
  {x \in {"customer", "order", "orderLineItem", "product"} : db'[x] # db[x]}

\* the rows of an invocation follow its types in order; all but the last are
\* terminal, and the last is running exactly while its type is executed
SequentialShape ==
  \A r \in DOMAIN runs :
     ~Finished(r) =>
       LET run == runs[r]
           rows == logsOf(r)
       IN  /\ Len(rows) = IF run.pc = "exec" THEN run.idx ELSE run.idx - 1
           /\ \A i \in DOMAIN rows :
                 /\ rows[i].type = run.types[i]
                 /\ rows[i].tenantId = run.tenant
                 /\ rows[i].status = "running" <=> (i = Len(rows) /\ run.pc = "exec")
           /\ Cardinality({i \in DOMAIN rows : rows[i].status = "running"}) <= 1

\* a row is created by the invocation whose turn it is, for its next type,
\* when all its earlier rows are terminal and before anything of that type is
\* written; a table is written only by an invocation that executes a type,
\* under the running row of that type, and only the tables of that type
SequentialStep ==
  /\ Len(db'.syncLog) # Len(db.syncLog) =>
        \E r \in DOMAIN runs :
           /\ runs[r].pc = "create"
           /\ runs'[r].pc = "exec"
           /\ \A i \in DOMAIN logsOf(r) : logsOf(r)[i].status \in Terminal
           /\ db'.syncLog = Append(db.syncLog,
                                   newLog(Len(db.syncLog) + 1, runs[r].tenant,
                                          runs[r].types[runs[r].idx]))
           /\ runs'[r].logs = Append(runs[r].logs, Len(db.syncLog) + 1)
           /\ changedTables = {}
  /\ changedTables # {} =>
        \E r \in DOMAIN runs :
           /\ runs[r].pc = "exec"
           /\ runs'[r] # runs[r]
           /\ changedTables \subseteq tablesOf(runs[r].types[runs[r].idx])
           /\ logsOf(r)[Len(logsOf(r))].status = "running"
           /\ logsOf(r)[Len(logsOf(r))].type = runs[r].types[runs[r].idx]

\* C28: within one invocation of syncTenantData the types are processed one
\* after the other in the order given: the SyncLog of a type is created
\* running before the type is fetched, the SyncLog of the next type only when
\* the previous one is terminal, so that at most one SyncLog of the
\* invocation is running and no two types of it write at the same time.
C28_TypesInSequence == []SequentialShape /\ [][SequentialStep]_vars

\* an invocation executes its third type, after one type completed and one
\* failed, while another invocation executes its first
C28_Witness ==
  \E r, q \in DOMAIN runs :
     /\ ~Finished(r) /\ ~Finished(q)
     /\ runs[r].pc = "exec" /\ runs[r].idx = 3
     /\ {logsOf(r)[1].status, logsOf(r)[2].status} = Terminal
     /\ logsOf(r)[3].status = "running"
     /\ runs[q].pc = "exec" /\ runs[q].idx = 1
     /\ db.customer # {}

\* ------------------------------------------------------------- customer totals
totals(c) == <<c.totalSpent, c.ordersCount>>

\* the row a stored customer has after the step
after(c) == CHOOSE n \in db'.customer : n.id = c.id

\* the totalSpent and ordersCount a customer payload carries
payloadTotals(p) ==
  LET w == Written(last'.path, "customers", last'.tenant, p)
  IN  <<w.totalSpent, w.ordersCount>>

\* the step reconciled the customer payload of this row directly
direct(c) ==
  /\ last'.path \in {"pull", "webhook"}
  /\ last'.kind = "customers"
  /\ last'.tenant = c.tenantId
  /\ String(last'.payload, "id") = c.shopifyId

TotalsStep ==
  /\ \A c \in db.customer :
        /\ \E n \in db'.customer : n.id = c.id
        /\ totals(after(c)) # totals(c) =>
              direct(c) /\ totals(after(c)) = payloadTotals(last'.payload)
  /\ \A n \in db'.customer :
        (\A c \in db.customer : c.id # n.id) =>
           IF direct(n) THEN totals(n) = payloadTotals(last'.payload)
           ELSE /\ last'.kind = "orders"
                /\ last'.path = "pull"
                /\ totals(n) = <<0, 0>>
  /\ (last' # last /\ last'.kind = "orders") =>
        \A c \in db.customer : totals(after(c)) = totals(c)

\* C29: reconciling an order never changes totalSpent or ordersCount of a
\* stored customer, and a customer created from an order starts with 0 and 0;
\* the two fields change only when a customer payload is reconciled directly,
\* by the pull or by the webhook, and then they are the payload's values.
C29_TotalsFromCustomerPayload == [][TotalsStep]_vars

\* an order of 10 was pulled for a customer stored with totalSpent 50 and
\* ordersCount 2, which it keeps
C29_Witness ==
  /\ last.path = "pull"
  /\ last.kind = "orders"
  /\ last.payload = oAB
  /\ \E c \in findUnique(db.customer, "A", "1"), o \in findUnique(db.order, "A", "7") :
        /\ o.customerId = c.id
        /\ o.totalPrice = 10
        /\ totals(c) = <<50, 2>>

====
